---- MODULE Spec2Model ----
(***************************************************************************)
(* Verification model of indaco/teseo: Schema.org JSON-LD entities,        *)
(* OpenGraph and Twitter Card meta tags, their default population          *)
(* (ensureDefaults) and their serializers.                                 *)
(*                                                                         *)
(* A Go string is a sequence of chunks.  A chunk is either one of the five *)
(* characters html.EscapeString rewrites, or a run of other characters.    *)
(* The empty string is the empty sequence.  A nil pointer is Nil.          *)
(***************************************************************************)
EXTENDS Integers, Sequences, FiniteSets, TLC

\* ent: the entity; pre: the entity as it was when the last operation on it was
\* called; op: the last operation; res: how it ended; out: what it wrote;
\* n: the number of operations called on the entity; arg: the URL the last
\* operation was given; err: the error it returned
VARIABLES ent, pre, op, res, out, n, arg, err, file, pc, wr, seen, exp, origin,
          clock, ids

vars ==
    <<ent, pre, op, res, out, n, arg, err, file, pc, wr, seen, exp, origin,
      clock, ids>>

\* ------------------------------------------------------------------ bounds
\* an input entity differs from the zero entity in at most MaxSet fields
MaxSet == 2
\* number of operations applied to one entity in a behaviour
MaxOps == 3
\* the longest URL path, in characters
MaxPath == 4
\* the latest reading of the clock, and the JSON-LD blocks of one page
MaxClock == 2
MaxBlocks == 2

\* ------------------------------------------------------------ Go values
Nil == [nil |-> TRUE]

Empty == << >>

NoError == << >>

IsNil(x) == x = Nil

\* the characters html.EscapeString rewrites
Special == {"<", ">", "&", "'", "\""}

SchemaOrgContext == <<"https://schema.org">>

\* caller-supplied strings used as field values
StrA == <<"a">>
StrB == <<"b">>
StrScript == <<"<", "/script", ">">>
StrQuote == <<"x", "\"", "&", "'">>
CustomContext == <<"http://example.org/ctx">>
CustomType == <<"Custom">>

\* ------------------------------------------------------- html.EscapeString
EscapeChunkRaw(c) == c

EscapeChunk(c) ==
    CASE c = "&"  -> "&amp;"
      [] c = "'"  -> "&#39;"
      [] c = "<"  -> "&lt;"
      [] c = ">"  -> "&gt;"
      [] c = "\"" -> "&#34;"
      [] OTHER    -> c

EscapeString(s) == [i \in 1..Len(s) |-> EscapeChunk(s[i])]

\* --------------------------------------------------------- input entities
\* Zero is the zero value of a struct; NonZero gives, per field, the list of
\* non-zero values a caller may set.  An input sets at most MaxSet fields.
OptCount(NonZero) ==
    CHOOSE m \in 0..8 : /\ \A f \in DOMAIN NonZero : Len(NonZero[f]) <= m
                        /\ \E f \in DOMAIN NonZero : Len(NonZero[f]) = m

Choices(F, NonZero) ==
    {c \in [F -> 1..OptCount(NonZero)] : \A f \in F : c[f] <= Len(NonZero[f])}

Inputs(Zero, NonZero) ==
    UNION {
      { [f \in DOMAIN Zero |-> IF f \in F THEN NonZero[f][c[f]] ELSE Zero[f]]
          : c \in Choices(F, NonZero) }
      : F \in {G \in SUBSET (DOMAIN NonZero) : Cardinality(G) <= MaxSet} }

\* first index of a nil element of a slice of pointers, Len+1 when none
FirstNil(s) ==
    IF \E i \in 1..Len(s) : IsNil(s[i])
    THEN CHOOSE i \in 1..Len(s) : IsNil(s[i]) /\ \A j \in 1..(i-1) : ~IsNil(s[j])
    ELSE Len(s) + 1

HasNil(s) == \E i \in 1..Len(s) : IsNil(s[i])

\* `if x == "" { x = d }`
Default(v, d) == IF v = Empty THEN d ELSE v

\* ------------------------------------------------- Schema.org: nested types
ZeroImageObject == [Type |-> Empty, URL |-> Empty]

ImageObjectEnsureDefaults(img) ==
    [img EXCEPT !.Type = Default(@, <<"ImageObject">>)]

ZeroPostalAddress ==
    [Type |-> Empty, StreetAddress |-> Empty, AddressLocality |-> Empty,
     AddressRegion |-> Empty, PostalCode |-> Empty, AddressCountry |-> Empty]

PostalAddressEnsureDefaults(addr) ==
    [addr EXCEPT !.Type = Default(@, <<"PostalAddress">>)]

ZeroGeoCoordinates == [Type |-> Empty, Latitude |-> 0, Longitude |-> 0]

GeoCoordinatesEnsureDefaults(geo) ==
    [geo EXCEPT !.Type = Default(@, <<"GeoCoordinates">>)]

ZeroContactPoint ==
    [Type |-> Empty, Telephone |-> Empty, ContactType |-> Empty,
     AreaServed |-> Empty, AvailableLanguage |-> Empty]

ZeroBrand == [Type |-> Empty, Name |-> Empty]

BrandEnsureDefaults(b) == [b EXCEPT !.Type = Default(@, <<"Brand">>)]

ZeroOffer ==
    [Type |-> Empty, URL |-> Empty, PriceCurrency |-> Empty, Price |-> Empty,
     Availability |-> Empty, ItemCondition |-> Empty]

OfferEnsureDefaults(o) == [o EXCEPT !.Type = Default(@, <<"Offer">>)]

ZeroAggregateRating == [Type |-> Empty, RatingValue |-> 0, ReviewCount |-> 0]

AggregateRatingEnsureDefaults(ar) ==
    [ar EXCEPT !.Type = Default(@, <<"AggregateRating">>)]

ZeroRating == [Type |-> Empty, RatingValue |-> 0, BestRating |-> 0]

RatingEnsureDefaults(ra) == [ra EXCEPT !.Type = Default(@, <<"Rating">>)]

\* ------------------------------------------- Schema.org: Organization, Person
ZeroOrganization ==
    [Context |-> Empty, Type |-> Empty, Name |-> Empty, URL |-> Empty,
     Logo |-> Nil, ContactPoints |-> << >>, SameAs |-> << >>]

OrganizationEnsureDefaults(org) ==
    [org EXCEPT !.Context = Default(@, SchemaOrgContext),
                !.Type = Default(@, <<"Organization">>),
                !.Logo = IF IsNil(@) THEN @ ELSE ImageObjectEnsureDefaults(@)]

ZeroPerson ==
    [Context |-> Empty, Type |-> Empty, Name |-> Empty, URL |-> Empty,
     Email |-> Empty, Image |-> Nil, JobTitle |-> Empty, WorksFor |-> Nil,
     SameAs |-> << >>, Gender |-> Empty, BirthDate |-> Empty,
     Nationality |-> Empty, Telephone |-> Empty, Address |-> Nil,
     Affiliation |-> Nil]

PersonEnsureDefaults(p) ==
    [p EXCEPT !.Context = Default(@, SchemaOrgContext),
              !.Type = Default(@, <<"Person">>),
              !.Image = IF IsNil(@) THEN @ ELSE ImageObjectEnsureDefaults(@),
              !.WorksFor = IF IsNil(@) THEN @ ELSE OrganizationEnsureDefaults(@),
              !.Address = IF IsNil(@) THEN @ ELSE PostalAddressEnsureDefaults(@),
              !.Affiliation = IF IsNil(@) THEN @ ELSE OrganizationEnsureDefaults(@)]

\* ------------------------------------------------------ Schema.org: Product
ZeroReview ==
    [Type |-> Empty, Author |-> Nil, DatePublished |-> Empty,
     ReviewBody |-> Empty, ReviewRating |-> Nil]

ReviewEnsureDefaults(r) ==
    [r EXCEPT !.Type = Default(@, <<"Review">>),
              !.Author = IF IsNil(@) THEN @ ELSE PersonEnsureDefaults(@),
              !.ReviewRating = IF IsNil(@) THEN @ ELSE RatingEnsureDefaults(@)]

\* `for _, review := range xs { review.ensureDefaults() }` over []*Review:
\* the call on a nil element dereferences nil and panics, leaving the
\* elements before it defaulted and the rest untouched.
ReviewsEnsureDefaults(rs) ==
    [i \in 1..Len(rs) |->
        IF i < FirstNil(rs) THEN ReviewEnsureDefaults(rs[i]) ELSE rs[i]]

ZeroProduct ==
    [kind |-> "Product", Context |-> Empty, Type |-> Empty, Name |-> Empty,
     Description |-> Empty, Image |-> << >>, SKU |-> Empty, Brand |-> Nil,
     Offers |-> Nil, Category |-> Empty, AggregateRating |-> Nil,
     Review |-> << >>]

ProductEnsureDefaults(p) ==
    [p EXCEPT !.Context = Default(@, SchemaOrgContext),
              !.Type = Default(@, <<"Product">>),
              !.Brand = IF IsNil(@) THEN @ ELSE BrandEnsureDefaults(@),
              !.Offers = IF IsNil(@) THEN @ ELSE OfferEnsureDefaults(@),
              !.AggregateRating =
                  IF IsNil(@) THEN @ ELSE AggregateRatingEnsureDefaults(@),
              !.Review = ReviewsEnsureDefaults(@)]

\* -------------------------------------------------------- Schema.org: Event
ZeroPlace ==
    [Context |-> Empty, Type |-> Empty, Name |-> Empty, Address |-> Nil,
     Geo |-> Nil]

PlaceEnsureDefaults(p) ==
    [p EXCEPT !.Context = Default(@, SchemaOrgContext),
              !.Type = Default(@, <<"Place">>),
              !.Address = IF IsNil(@) THEN @ ELSE PostalAddressEnsureDefaults(@),
              !.Geo = IF IsNil(@) THEN @ ELSE GeoCoordinatesEnsureDefaults(@)]

ZeroEvent ==
    [kind |-> "Event", Context |-> Empty, Type |-> Empty, Name |-> Empty,
     Description |-> Empty, StartDate |-> Empty, EndDate |-> Empty,
     Location |-> Nil, Organizer |-> Nil, Performer |-> Nil, Image |-> << >>,
     EventStatus |-> Empty, EventAttendanceMode |-> Empty, Offers |-> Nil]

EventEnsureDefaults(e) ==
    [e EXCEPT !.Context = Default(@, SchemaOrgContext),
              !.Type = Default(@, <<"Event">>),
              !.Location = IF IsNil(@) THEN @ ELSE PlaceEnsureDefaults(@),
              !.Organizer = IF IsNil(@) THEN @ ELSE OrganizationEnsureDefaults(@),
              !.Performer = IF IsNil(@) THEN @ ELSE PersonEnsureDefaults(@),
              !.Offers = IF IsNil(@) THEN @ ELSE OfferEnsureDefaults(@)]

\* ------------------------------------------------------ Schema.org: Article
ZeroArticle ==
    [kind |-> "Article", Context |-> Empty, Type |-> Empty,
     Headline |-> Empty, Image |-> << >>, Author |-> Nil, Publisher |-> Nil,
     DatePublished |-> Empty, DateModified |-> Empty, Description |-> Empty]

ArticleEnsureDefaults(art) ==
    [art EXCEPT !.Context = Default(@, SchemaOrgContext),
                !.Type = Default(@, <<"Article">>),
                !.Author = IF IsNil(@) THEN @ ELSE PersonEnsureDefaults(@),
                !.Publisher =
                    IF IsNil(@) THEN @ ELSE OrganizationEnsureDefaults(@)]

\* ------------------------------------------------ Schema.org: LocalBusiness
ZeroLocalBusiness ==
    [kind |-> "LocalBusiness", Context |-> Empty, Type |-> Empty,
     Name |-> Empty, Description |-> Empty, URL |-> Empty, Logo |-> Nil,
     Telephone |-> Empty, Address |-> Nil, OpeningHours |-> << >>,
     Geo |-> Nil, AggregateRating |-> Nil, Review |-> << >>]

LocalBusinessEnsureDefaults(lb) ==
    [lb EXCEPT !.Context = Default(@, SchemaOrgContext),
               !.Type = Default(@, <<"LocalBusiness">>),
               !.Logo = IF IsNil(@) THEN @ ELSE ImageObjectEnsureDefaults(@),
               !.Address =
                   IF IsNil(@) THEN @ ELSE PostalAddressEnsureDefaults(@),
               !.Geo = IF IsNil(@) THEN @ ELSE GeoCoordinatesEnsureDefaults(@),
               !.AggregateRating =
                   IF IsNil(@) THEN @ ELSE AggregateRatingEnsureDefaults(@),
               !.Review = ReviewsEnsureDefaults(@)]

\* ------------------------------------------------------ Schema.org: WebSite
ZeroTarget == [Type |-> Empty, URLTemplate |-> Empty]

TargetEnsureDefaults(tgt) == [tgt EXCEPT !.Type = Default(@, <<"EntryPoint">>)]

ZeroAction == [Type |-> Empty, Target |-> Nil, QueryInput |-> Empty]

ActionEnsureDefaults(act) ==
    [act EXCEPT !.Type = Default(@, <<"Action">>),
                !.Target = IF IsNil(@) THEN @ ELSE TargetEnsureDefaults(@)]

ZeroWebSite ==
    [kind |-> "WebSite", Context |-> Empty, Type |-> Empty, URL |-> Empty,
     Name |-> Empty, AlternateName |-> Empty, Description |-> Empty,
     PotentialAction |-> Nil]

\* The second test reads ws.Context, which the first statement has just made
\* non-empty, so the assignment to ws.Type is never executed.
WebSiteEnsureDefaults(ws) ==
    LET ws1 == [ws EXCEPT !.Context = Default(@, SchemaOrgContext)]
        ws2 == IF ws1.Context = Empty
               THEN [ws1 EXCEPT !.Type = <<"WebSite">>]
               ELSE ws1
    IN  [ws2 EXCEPT !.PotentialAction =
                        IF IsNil(@) THEN @ ELSE ActionEnsureDefaults(@)]

\* ------------------------------------------------------ Schema.org: WebPage
ZeroWebPage ==
    [kind |-> "WebPage", Context |-> Empty, Type |-> Empty, URL |-> Empty,
     Name |-> Empty, Headline |-> Empty, Description |-> Empty,
     About |-> Empty, Keywords |-> Empty, InLanguage |-> Empty,
     IsPartOf |-> Empty, LastReviewed |-> Empty, PrimaryImage |-> Empty,
     DatePublished |-> Empty, DateModified |-> Empty]

WebPageEnsureDefaults(wp) ==
    [wp EXCEPT !.Context = Default(@, SchemaOrgContext),
               !.Type = Default(@, <<"WebPage">>)]

\* ------------------------------------------------------ Schema.org: FAQPage
ZeroAnswer == [Type |-> Empty, Text |-> Empty]

AnswerEnsureDefaults(a) == [a EXCEPT !.Type = Default(@, <<"Answer">>)]

ZeroQuestion == [Type |-> Empty, Name |-> Empty, AcceptedAnswer |-> Nil]

QuestionEnsureDefaults(q) ==
    [q EXCEPT !.Type = Default(@, <<"Question">>),
              !.AcceptedAnswer =
                  IF IsNil(@) THEN @ ELSE AnswerEnsureDefaults(@)]

ZeroFAQPage ==
    [kind |-> "FAQPage", Context |-> Empty, Type |-> Empty,
     MainEntity |-> << >>]

\* the loop over []*Question panics at a nil element, like the Review loop
FAQPageEnsureDefaults(fp) ==
    [fp EXCEPT !.Context = Default(@, SchemaOrgContext),
               !.Type = Default(@, <<"FAQPage">>),
               !.MainEntity =
                   [i \in 1..Len(@) |->
                       IF i < FirstNil(@) THEN QuestionEnsureDefaults(@[i])
                       ELSE @[i]]]

\* ----------------------------------------------- Schema.org: BreadcrumbList
ZeroListItem ==
    [Type |-> Empty, Position |-> 0, Name |-> Empty, Item |-> Empty]

ZeroBreadcrumbList ==
    [kind |-> "BreadcrumbList", Context |-> Empty, Type |-> Empty,
     ItemListElement |-> << >>]

\* every element's Type is assigned, whatever it held
BreadcrumbListEnsureDefaults(bcl) ==
    [bcl EXCEPT !.Context = Default(@, SchemaOrgContext),
                !.Type = Default(@, <<"BreadcrumbList">>),
                !.ItemListElement =
                    [i \in 1..Len(@) |-> [@[i] EXCEPT !.Type = <<"ListItem">>]]]

\* -------------------------------------- BreadcrumbList from a URL string
\* A raw URL is scheme "://" host followed by the characters of its path.  A
\* path character is "/", a letter, a percent-escape, or a malformed escape.
PathChars == {"/", "a", "U+01C6", "%20", "%zz"}

\* no entity: the nil pointer a constructor returns with an error
NilEntity == [kind |-> "nil"]

\* url.Parse unescaping one path character: "%20" is a space
Unescape(c) == IF c = "%20" THEN " " ELSE c

\* url.Parse: a malformed percent-escape is an error; Path is the unescaped
\* path
UrlParse(rawURL) ==
    IF \E i \in 1..Len(rawURL.RawPath) : rawURL.RawPath[i] = "%zz"
    THEN [err |-> <<"invalid URL escape">>, Scheme |-> Empty, Host |-> Empty,
          Path |-> Empty]
    ELSE [err |-> NoError, Scheme |-> rawURL.Scheme, Host |-> rawURL.Host,
          Path |-> [i \in 1..Len(rawURL.RawPath) |->
                       Unescape(rawURL.RawPath[i])]]

\* strings.Trim(s, "/")
RECURSIVE TrimLeft(_)
TrimLeft(s) ==
    IF s # << >> /\ Head(s) = "/" THEN TrimLeft(Tail(s)) ELSE s

RECURSIVE TrimRight(_)
TrimRight(s) ==
    IF s # << >> /\ s[Len(s)] = "/"
    THEN TrimRight(SubSeq(s, 1, Len(s) - 1)) ELSE s

Trim(s) == TrimRight(TrimLeft(s))

\* strings.Split(s, "/"): always at least one piece; cur is the piece being
\* read
RECURSIVE SplitFrom(_, _)
SplitFrom(s, cur) ==
    IF s = << >> THEN <<cur>>
    ELSE IF Head(s) = "/" THEN <<cur>> \o SplitFrom(Tail(s), << >>)
    ELSE SplitFrom(Tail(s), Append(cur, Head(s)))

Split(s) == SplitFrom(s, << >>)

\* strings.Join(pieces, "/")
RECURSIVE Join(_)
Join(pieces) ==
    IF pieces = << >> THEN << >>
    ELSE IF Len(pieces) = 1 THEN pieces[1]
    ELSE pieces[1] \o <<"/">> \o Join(Tail(pieces))

\* unicode.ToTitle: U+01C6 has the title case U+01C5 (its upper case is
\* U+01C4)
UnicodeToTitle(r) ==
    CASE r = "a" -> "A"
      [] r = "U+01C6" -> "U+01C5"
      [] OTHER -> r

toTitle(seg) ==
    IF Len(seg) = 0 THEN seg
    ELSE [seg EXCEPT ![1] = UnicodeToTitle(@)]

\* variant that answers a failed parse with the Home-only list
createBreadcrumbListFromURLLenient(rawURL) ==
    [list |-> [kind |-> "BreadcrumbList", Context |-> SchemaOrgContext,
               Type |-> <<"BreadcrumbList">>,
               ItemListElement |->
                  <<[Type |-> <<"ListItem">>, Position |-> 1,
                     Name |-> <<"Home">>, Item |-> <<"://">>]>>],
     err |-> NoError]

createBreadcrumbListFromURL(rawURL) ==
    LET parsedURL == UrlParse(rawURL)
        segments == Split(Trim(parsedURL.Path))
        baseURL == parsedURL.Scheme \o <<"://">> \o parsedURL.Host
        home == [Type |-> <<"ListItem">>, Position |-> 1,
                 Name |-> <<"Home">>, Item |-> baseURL]
        rest == IF Len(segments) > 0 /\ segments[1] # << >>
                THEN [i \in 1..Len(segments) |->
                        [Type |-> <<"ListItem">>, Position |-> i + 1,
                         Name |-> toTitle(segments[i]),
                         Item |-> baseURL \o <<"/">>
                                    \o Join(SubSeq(segments, 1, i))]]
                ELSE << >>
    IN IF parsedURL.err # NoError
       THEN [list |-> NilEntity,
             err |-> <<"[createBreadcrumbListFromURL] invalid URL">>
                        \o parsedURL.err]
       ELSE [list |-> [kind |-> "BreadcrumbList",
                       Context |-> SchemaOrgContext,
                       Type |-> <<"BreadcrumbList">>,
                       ItemListElement |-> <<home>> \o rest],
             err |-> NoError]

NewBreadcrumbListFromUrl(rawURL) ==
    LET r == createBreadcrumbListFromURL(rawURL)
    IN IF r.err # NoError
       THEN [list |-> NilEntity,
             err |-> <<"[NewBreadcrumbListFromUrl] invalid URL">> \o r.err]
       ELSE r

\* ---------------------------------------- Schema.org: SiteNavigationElement
ZeroItemListElement ==
    [Type |-> Empty, Name |-> Empty, URL |-> Empty, Position |-> 0]

ZeroItemList == [Context |-> Empty, Type |-> Empty, ItemListElement |-> << >>]

ZeroSiteNavigationElement ==
    [kind |-> "SiteNavigationElement", Context |-> Empty, Type |-> Empty,
     Name |-> Empty, URL |-> Empty, Position |-> 0, Identifier |-> Empty,
     ItemList |-> Nil]

\* variant that counts the position up on every call
SiteNavigationElementEnsureDefaultsBump(sne) ==
    [sne EXCEPT !.Context = Default(@, SchemaOrgContext),
                !.Type = Default(@, <<"SiteNavigationElement">>),
                !.Position = @ + 1]

\* a non-empty ItemList is replaced by a fresh one that keeps only the
\* elements; an empty or absent ItemList is left as it is
SiteNavigationElementEnsureDefaults(sne) ==
    [sne EXCEPT !.Context = Default(@, SchemaOrgContext),
                !.Type = Default(@, <<"SiteNavigationElement">>),
                !.Position = IF @ = 0 THEN 1 ELSE @,
                !.ItemList =
                    IF ~IsNil(@) /\ Len(@.ItemListElement) > 0
                    THEN [Context |-> SchemaOrgContext,
                          Type |-> <<"ItemList">>,
                          ItemListElement |-> @.ItemListElement]
                    ELSE @]

\* ------------------------------------------------------------ sitemap file
\* A file is absent or holds a sequence of pieces: the XML declaration, the
\* start tag of the root element with its xmlns attribute, one piece per url
\* child with the text of its loc as written and its priority, the end tag.
NoFile == [exists |-> FALSE, data |-> << >>]
FileOf(d) == [exists |-> TRUE, data |-> d]

XmlHeader == [t |-> "header", v |-> Empty, p |-> Empty]
RootOpen(name, xmlns) == [t |-> name, v |-> <<xmlns>>, p |-> Empty]
UrlsetOpen == RootOpen("urlset", "http://www.sitemaps.org/schemas/sitemap/0.9")
UrlPiece(loc, priority) == [t |-> "url", v |-> loc, p |-> priority]
RootClose == [t |-> "end", v |-> Empty, p |-> Empty]

\* xml.EscapeText on one chunk, and the decoder's reading of a reference
XmlEscapeChunk(c) ==
    CASE c = "&" -> "&amp;"
      [] c = "'" -> "&#39;"
      [] c = "<" -> "&lt;"
      [] c = ">" -> "&gt;"
      [] c = "\"" -> "&#34;"
      [] OTHER -> c

XmlEscape(str) == [i \in 1..Len(str) |-> XmlEscapeChunk(str[i])]

XmlUnescapeChunkRaw(c) == c

XmlUnescapeChunk(c) ==
    CASE c = "&amp;" -> "&"
      [] c = "&#39;" -> "'"
      [] c = "&apos;" -> "'"
      [] c = "&lt;" -> "<"
      [] c = "&gt;" -> ">"
      [] c = "&#34;" -> "\""
      [] c = "&quot;" -> "\""
      [] OTHER -> c

XmlUnescape(str) == [i \in 1..Len(str) |-> XmlUnescapeChunk(str[i])]

\* variant that writes the priority 1.0
SitemapDocumentPriorityOne(s) ==
    <<XmlHeader, UrlsetOpen>>
      \o [i \in 1..Len(s.ItemList.ItemListElement) |->
            UrlPiece(XmlEscape(s.ItemList.ItemListElement[i].URL), <<"1.0">>)]
      \o <<RootClose>>

\* variant that writes the Name of an item as its loc
SitemapDocumentByName(s) ==
    <<XmlHeader, UrlsetOpen>>
      \o [i \in 1..Len(s.ItemList.ItemListElement) |->
            UrlPiece(XmlEscape(s.ItemList.ItemListElement[i].Name), <<"0.5">>)]
      \o <<RootClose>>

\* variant that writes only the declaration when there is no item
SitemapDocumentHeaderOnly(s) ==
    IF s.ItemList.ItemListElement = << >> THEN <<XmlHeader>>
    ELSE <<XmlHeader, UrlsetOpen>>
           \o [i \in 1..Len(s.ItemList.ItemListElement) |->
                 UrlPiece(XmlEscape(s.ItemList.ItemListElement[i].URL), <<"0.5">>)]
           \o <<RootClose>>

\* xml.Header followed by xml.MarshalIndent of the XMLSitemap built from the
\* items
SitemapDocument(s) ==
    <<XmlHeader, UrlsetOpen>>
      \o [i \in 1..Len(s.ItemList.ItemListElement) |->
            UrlPiece(XmlEscape(s.ItemList.ItemListElement[i].URL), <<"0.5">>)]
      \o <<RootClose>>

\* xml.Unmarshal into XMLSitemap: the root element must be urlset and the
\* document must be complete; the declaration is optional, the namespace and
\* the priorities are not looked at
Unmarshal(data) ==
    LET body == IF data # << >> /\ data[1].t = "header" THEN Tail(data)
                ELSE data
        ok == /\ Len(body) >= 2
              /\ body[1].t = "urlset"
              /\ body[Len(body)].t = "end"
              /\ \A i \in 2..(Len(body) - 1) : body[i].t = "url"
    IN IF ok
       THEN [err |-> NoError,
             Urls |-> [i \in 1..(Len(body) - 2) |->
                          [Loc |-> XmlUnescape(body[i + 1].v)]]]
       ELSE [err |-> <<"could not unmarshal XML content">>, Urls |-> << >>]

\* the fields FromSitemapFile assigns once the document is parsed
Populate(s, urls) ==
    [s EXCEPT !.Context = SchemaOrgContext,
              !.Type = <<"SiteNavigationElement">>,
              !.ItemList =
                 [Context |-> SchemaOrgContext, Type |-> <<"ItemList">>,
                  ItemListElement |->
                     [i \in 1..Len(urls) |->
                        [Type |-> <<"SiteNavigationElement">>, Name |-> Empty,
                         URL |-> urls[i].Loc, Position |-> i]]]]

\* variant that numbers the items from 0
FromSitemapFileZeroBased(s, f, readOK) ==
    IF ~f.exists \/ ~readOK \/ Unmarshal(f.data).err # NoError
    THEN [ent |-> s, err |-> <<"could not read">>]
    ELSE [ent |-> [Populate(s, Unmarshal(f.data).Urls) EXCEPT
                      !.ItemList.ItemListElement =
                         [i \in 1..Len(@) |-> [@[i] EXCEPT !.Position = i - 1]]],
          err |-> NoError]

\* variant that assigns the fields before it parses
FromSitemapFileEager(s, f, readOK) ==
    IF ~f.exists \/ ~readOK \/ Unmarshal(f.data).err # NoError
    THEN [ent |-> Populate(s, << >>), err |-> <<"could not read">>]
    ELSE [ent |-> Populate(s, Unmarshal(f.data).Urls), err |-> NoError]

\* s.FromSitemapFile(filename): readOK is whether io.ReadAll succeeds
FromSitemapFile(s, f, readOK) ==
    IF ~f.exists
    THEN [ent |-> s, err |-> <<"could not open XML file">>]
    ELSE IF ~readOK
    THEN [ent |-> s, err |-> <<"could not read XML file">>]
    ELSE IF Unmarshal(f.data).err # NoError
    THEN [ent |-> s, err |-> Unmarshal(f.data).err]
    ELSE [ent |-> Populate(s, Unmarshal(f.data).Urls), err |-> NoError]

\* ------------------------------------------------------------- TwitterCard
CardSummary == <<"summary">>
CardSummaryLargeImage == <<"summary_large_image">>
CardApp == <<"app">>
CardPlayer == <<"player">>

ZeroTwitterCard ==
    [kind |-> "TwitterCard", Card |-> Empty, Title |-> Empty,
     Description |-> Empty, Image |-> Empty, Site |-> Empty,
     Creator |-> Empty, AppID |-> Empty, PlayerURL |-> Empty]

TwitterCardEnsureDefaults(tc) == [tc EXCEPT !.Card = Default(@, CardSummary)]

\* --------------------------------------------------------------- OpenGraph
\* OpenGraphObject is embedded: its fields are fields of the entity
OpenGraphObjectEnsureDefaults(og, defaultType) ==
    [og EXCEPT !.Type = Default(@, defaultType)]

ZeroBook ==
    [kind |-> "og.Book", Type |-> Empty, Title |-> Empty, URL |-> Empty,
     Description |-> Empty, Image |-> Empty, Author |-> << >>,
     ISBN |-> Empty, ReleaseDate |-> Empty, Tag |-> << >>]

BookEnsureDefaults(book) == OpenGraphObjectEnsureDefaults(book, <<"book">>)

ZeroOGPlace ==
    [kind |-> "og.Place", Type |-> Empty, Title |-> Empty, URL |-> Empty,
     Description |-> Empty, Image |-> Empty, Latitude |-> 0, Longitude |-> 0,
     StreetAddress |-> Empty, Locality |-> Empty, Region |-> Empty,
     PostalCode |-> Empty, Country |-> Empty]

OGPlaceEnsureDefaults(place) == OpenGraphObjectEnsureDefaults(place, <<"place">>)

ZeroVideoEpisode ==
    [kind |-> "og.VideoEpisode", Type |-> Empty, Title |-> Empty,
     URL |-> Empty, Description |-> Empty, Image |-> Empty,
     SeriesURL |-> Empty, Duration |-> Empty, ActorURLs |-> << >>,
     DirectorURL |-> Empty, ReleaseDate |-> Empty, EpisodeNumber |-> 0]

VideoEpisodeEnsureDefaults(ve) ==
    OpenGraphObjectEnsureDefaults(ve, <<"video.episode">>)

ZeroVideoMovie ==
    [kind |-> "og.VideoMovie", Type |-> Empty, Title |-> Empty,
     URL |-> Empty, Description |-> Empty, Image |-> Empty,
     Duration |-> Empty, ActorURLs |-> << >>, DirectorURL |-> Empty,
     ReleaseDate |-> Empty]

VideoMovieEnsureDefaults(vm) ==
    OpenGraphObjectEnsureDefaults(vm, <<"video.movie">>)

ZeroMusicPlaylist ==
    [kind |-> "og.MusicPlaylist", Type |-> Empty, Title |-> Empty,
     URL |-> Empty, Description |-> Empty, Image |-> Empty,
     SongURLs |-> << >>, Duration |-> Empty]

MusicPlaylistEnsureDefaults(mp) ==
    OpenGraphObjectEnsureDefaults(mp, <<"music.playlist">>)

ZeroProfile ==
    [kind |-> "og.Profile", Type |-> Empty, Title |-> Empty, URL |-> Empty,
     Description |-> Empty, Image |-> Empty, FirstName |-> Empty,
     LastName |-> Empty, Username |-> Empty, Gender |-> Empty]

ProfileEnsureDefaults(p) == OpenGraphObjectEnsureDefaults(p, <<"profile">>)

ZeroProductGroup ==
    [kind |-> "og.ProductGroup", Type |-> Empty, Title |-> Empty,
     URL |-> Empty, Description |-> Empty, Image |-> Empty,
     Products |-> << >>]

ProductGroupEnsureDefaults(pg) ==
    OpenGraphObjectEnsureDefaults(pg, <<"product.group">>)

\* ------------------------------------------------- values a caller may set
SetImageObject == [Type |-> CustomType, URL |-> StrScript]

SetPostalAddress ==
    [ZeroPostalAddress EXCEPT !.Type = CustomType, !.AddressLocality = StrQuote,
                              !.AddressCountry = StrA]

SetGeoCoordinates == [Type |-> CustomType, Latitude |-> 1, Longitude |-> 2]

SetContactPoint ==
    [ZeroContactPoint EXCEPT !.Type = CustomType, !.Telephone = StrA,
                             !.AreaServed = StrScript]

SetOrganization ==
    [ZeroOrganization EXCEPT !.Context = CustomContext, !.Name = StrQuote,
                             !.URL = StrA, !.Logo = ZeroImageObject,
                             !.ContactPoints = <<ZeroContactPoint>>]

SetPerson ==
    [ZeroPerson EXCEPT !.Type = CustomType, !.Name = StrScript, !.URL = StrA,
                       !.WorksFor = ZeroOrganization, !.Address = ZeroPostalAddress]

SetOffer ==
    [ZeroOffer EXCEPT !.Type = CustomType, !.Price = StrA, !.URL = StrScript,
                      !.ItemCondition = StrQuote]

SetReview ==
    [Type |-> CustomType, Author |-> SetPerson, DatePublished |-> StrA,
     ReviewBody |-> StrScript, ReviewRating |-> ZeroRating]

SetPlace ==
    [ZeroPlace EXCEPT !.Type = CustomType, !.Name = StrScript,
                      !.Address = ZeroPostalAddress, !.Geo = ZeroGeoCoordinates]

SetAction ==
    [Type |-> CustomType, Target |-> [Type |-> CustomType, URLTemplate |-> StrScript],
     QueryInput |-> StrQuote]

OptStrings == <<StrA, StrScript, StrQuote>>
OptString == <<StrA>>
OptStringList == << <<StrA>>, <<StrScript, StrB>> >>
OptContext == <<CustomContext>>
OptType == <<CustomType>>
OptReviews == << <<ZeroReview>>, <<SetReview, ZeroReview>>, <<ZeroReview, Nil>> >>

ProductOptions ==
    [Context |-> OptContext, Type |-> OptType, Name |-> OptStrings,
     Description |-> OptString, Image |-> OptStringList, SKU |-> OptString,
     Brand |-> <<ZeroBrand, [Type |-> CustomType, Name |-> StrScript]>>,
     Offers |-> <<ZeroOffer, SetOffer>>, Category |-> OptString,
     AggregateRating |-> <<ZeroAggregateRating,
                           [Type |-> CustomType, RatingValue |-> 4, ReviewCount |-> 7]>>,
     Review |-> OptReviews]

EventOptions ==
    [Context |-> OptContext, Type |-> OptType, Name |-> OptStrings,
     Description |-> OptString, StartDate |-> OptString, EndDate |-> OptString,
     Location |-> <<ZeroPlace, SetPlace>>,
     Organizer |-> <<ZeroOrganization, SetOrganization>>,
     Performer |-> <<ZeroPerson, SetPerson>>, Image |-> OptStringList,
     EventStatus |-> OptString, EventAttendanceMode |-> OptString,
     Offers |-> <<ZeroOffer, SetOffer>>]

PersonOptions ==
    [Context |-> OptContext, Type |-> OptType, Name |-> OptStrings,
     URL |-> OptString, Email |-> OptString,
     Image |-> <<ZeroImageObject, SetImageObject>>, JobTitle |-> OptString,
     WorksFor |-> <<ZeroOrganization, SetOrganization>>,
     SameAs |-> OptStringList, Gender |-> OptString, BirthDate |-> OptString,
     Nationality |-> OptString, Telephone |-> OptString,
     Address |-> <<ZeroPostalAddress, SetPostalAddress>>,
     Affiliation |-> <<ZeroOrganization, SetOrganization>>]

OrganizationOptions ==
    [Context |-> OptContext, Type |-> OptType, Name |-> OptStrings,
     URL |-> OptString, Logo |-> <<ZeroImageObject, SetImageObject>>,
     ContactPoints |-> << <<ZeroContactPoint>>,
                          <<SetContactPoint, ZeroContactPoint>> >>,
     SameAs |-> OptStringList]

ArticleOptions ==
    [Context |-> OptContext, Type |-> OptType, Headline |-> OptStrings,
     Image |-> OptStringList, Author |-> <<ZeroPerson, SetPerson>>,
     Publisher |-> <<ZeroOrganization, SetOrganization>>,
     DatePublished |-> OptString, DateModified |-> OptString,
     Description |-> OptString]

LocalBusinessOptions ==
    [Context |-> OptContext, Type |-> OptType, Name |-> OptStrings,
     Description |-> OptString, URL |-> OptString,
     Logo |-> <<ZeroImageObject, SetImageObject>>, Telephone |-> OptString,
     Address |-> <<ZeroPostalAddress, SetPostalAddress>>,
     OpeningHours |-> OptStringList,
     Geo |-> <<ZeroGeoCoordinates, SetGeoCoordinates>>,
     AggregateRating |-> <<ZeroAggregateRating>>, Review |-> OptReviews]

WebSiteOptions ==
    [Context |-> OptContext, Type |-> OptType, URL |-> OptString,
     Name |-> OptStrings, AlternateName |-> OptString,
     Description |-> OptString,
     PotentialAction |-> <<ZeroAction, SetAction,
                           [ZeroAction EXCEPT !.Target = ZeroTarget]>>]

WebPageOptions ==
    [Context |-> OptContext, Type |-> OptType, URL |-> OptString,
     Name |-> OptStrings, Headline |-> OptString, Description |-> OptString,
     Keywords |-> OptString, DateModified |-> OptString]

FAQPageOptions ==
    [Context |-> OptContext, Type |-> OptType,
     MainEntity |-> << <<ZeroQuestion>>,
                       <<[Type |-> CustomType, Name |-> StrA,
                          AcceptedAnswer |-> ZeroAnswer],
                         [ZeroQuestion EXCEPT !.AcceptedAnswer =
                              [Type |-> CustomType, Text |-> StrA]]>>,
                       <<ZeroQuestion, Nil>> >>]

BreadcrumbListOptions ==
    [Context |-> OptContext, Type |-> OptType,
     ItemListElement |->
        << <<ZeroListItem>>,
           <<[Type |-> <<"ListItem">>, Position |-> 1, Name |-> <<"Home">>,
              Item |-> StrA],
             [Type |-> CustomType, Position |-> 2, Name |-> StrB, Item |-> StrB]>> >>]

SetItemListElement ==
    [Type |-> CustomType, Name |-> StrA, URL |-> StrB, Position |-> 2]

SiteNavigationElementOptions ==
    [Context |-> OptContext, Type |-> OptType, Name |-> OptStrings,
     URL |-> OptString, Position |-> <<2>>, Identifier |-> OptString,
     ItemList |->
        <<ZeroItemList,
          [ZeroItemList EXCEPT !.ItemListElement = <<ZeroItemListElement>>],
          [Context |-> CustomContext, Type |-> CustomType,
           ItemListElement |-> <<SetItemListElement, ZeroItemListElement>>],
          [Context |-> SchemaOrgContext, Type |-> <<"ItemList">>,
           ItemListElement |->
              <<[Type |-> <<"SiteNavigationElement">>, Name |-> Empty,
                 URL |-> <<"u", "&", "<">>, Position |-> 1],
                [Type |-> <<"SiteNavigationElement">>, Name |-> Empty,
                 URL |-> StrB, Position |-> 2]>>]>>]

TwitterCardOptions ==
    [Card |-> <<CardSummary, CardSummaryLargeImage, CardApp, CardPlayer,
                CustomType>>,
     Title |-> OptString, Description |-> OptString, Image |-> OptString,
     Site |-> OptString, Creator |-> OptStrings, AppID |-> OptString,
     PlayerURL |-> OptString]

BookOptions ==
    [Type |-> OptType, Title |-> OptStrings, URL |-> OptString,
     Description |-> OptString, Image |-> OptString,
     Author |-> OptStringList, ISBN |-> OptString, ReleaseDate |-> OptString,
     Tag |-> << <<StrA>>, <<StrA, Empty, StrB>> >>]

OGPlaceOptions ==
    [Type |-> OptType, Title |-> OptStrings, URL |-> OptString,
     Description |-> OptString, Image |-> OptString, Latitude |-> <<1>>,
     Longitude |-> <<2>>, StreetAddress |-> OptString, Locality |-> OptString,
     Region |-> OptString, PostalCode |-> OptString, Country |-> OptString]

VideoEpisodeOptions ==
    [Type |-> OptType, Title |-> OptStrings, URL |-> OptString,
     Description |-> OptString, Image |-> OptString, SeriesURL |-> OptString,
     Duration |-> OptString, ActorURLs |-> OptStringList,
     DirectorURL |-> OptString, ReleaseDate |-> OptString,
     EpisodeNumber |-> <<3>>]

VideoMovieOptions ==
    [Type |-> OptType, Title |-> OptString, URL |-> OptString,
     Description |-> OptString, Image |-> OptString, Duration |-> OptString,
     ActorURLs |-> OptStringList, DirectorURL |-> OptString,
     ReleaseDate |-> OptString]

MusicPlaylistOptions ==
    [Type |-> OptType, Title |-> OptString, URL |-> OptString,
     Description |-> OptString, Image |-> OptString,
     SongURLs |-> OptStringList, Duration |-> OptString]

ProfileOptions ==
    [Type |-> OptType, Title |-> OptString, URL |-> OptString,
     Description |-> OptString, Image |-> OptString, FirstName |-> OptString,
     LastName |-> OptString, Username |-> OptString, Gender |-> OptString]

ProductGroupOptions ==
    [Type |-> OptType, Title |-> OptString, URL |-> OptString,
     Description |-> OptString, Image |-> OptString,
     Products |-> << <<StrA>>, <<StrB, StrA>>, <<StrA, Empty, StrB>> >>]

SchemaOrgKinds ==
    {"Product", "Event", "Person", "Organization", "Article", "LocalBusiness",
     "WebSite", "WebPage", "FAQPage", "BreadcrumbList", "SiteNavigationElement"}

OpenGraphKinds ==
    {"og.Book", "og.Place", "og.VideoEpisode", "og.VideoMovie",
     "og.MusicPlaylist", "og.Profile", "og.ProductGroup"}

\* top-level Person and Organization values carry their kind
Entities ==
    Inputs(ZeroProduct, ProductOptions)
      \cup Inputs(ZeroEvent, EventOptions)
      \cup Inputs([kind |-> "Person"] @@ ZeroPerson, PersonOptions)
      \cup Inputs([kind |-> "Organization"] @@ ZeroOrganization, OrganizationOptions)
      \cup Inputs(ZeroArticle, ArticleOptions)
      \cup Inputs(ZeroLocalBusiness, LocalBusinessOptions)
      \cup Inputs(ZeroWebSite, WebSiteOptions)
      \cup Inputs(ZeroWebPage, WebPageOptions)
      \cup Inputs(ZeroFAQPage, FAQPageOptions)
      \cup Inputs(ZeroBreadcrumbList, BreadcrumbListOptions)
      \cup Inputs(ZeroSiteNavigationElement, SiteNavigationElementOptions)
      \cup Inputs(ZeroTwitterCard, TwitterCardOptions)
      \cup Inputs(ZeroBook, BookOptions)
      \cup Inputs(ZeroOGPlace, OGPlaceOptions)
      \cup Inputs(ZeroVideoEpisode, VideoEpisodeOptions)
      \cup Inputs(ZeroVideoMovie, VideoMovieOptions)
      \cup Inputs(ZeroMusicPlaylist, MusicPlaylistOptions)
      \cup Inputs(ZeroProfile, ProfileOptions)
      \cup Inputs(ZeroProductGroup, ProductGroupOptions)

\* ------------------------------------------------------- ensureDefaults
\* method dispatch on the receiver's type
EnsureDefaultsOf(e) ==
    CASE e.kind = "Product" -> ProductEnsureDefaults(e)
      [] e.kind = "Event" -> EventEnsureDefaults(e)
      [] e.kind = "Person" -> PersonEnsureDefaults(e)
      [] e.kind = "Organization" -> OrganizationEnsureDefaults(e)
      [] e.kind = "Article" -> ArticleEnsureDefaults(e)
      [] e.kind = "LocalBusiness" -> LocalBusinessEnsureDefaults(e)
      [] e.kind = "WebSite" -> WebSiteEnsureDefaults(e)
      [] e.kind = "WebPage" -> WebPageEnsureDefaults(e)
      [] e.kind = "FAQPage" -> FAQPageEnsureDefaults(e)
      [] e.kind = "BreadcrumbList" -> BreadcrumbListEnsureDefaults(e)
      [] e.kind = "SiteNavigationElement" -> SiteNavigationElementEnsureDefaults(e)
      [] e.kind = "TwitterCard" -> TwitterCardEnsureDefaults(e)
      [] e.kind = "og.Book" -> BookEnsureDefaults(e)
      [] e.kind = "og.Place" -> OGPlaceEnsureDefaults(e)
      [] e.kind = "og.VideoEpisode" -> VideoEpisodeEnsureDefaults(e)
      [] e.kind = "og.VideoMovie" -> VideoMovieEnsureDefaults(e)
      [] e.kind = "og.MusicPlaylist" -> MusicPlaylistEnsureDefaults(e)
      [] e.kind = "og.Profile" -> ProfileEnsureDefaults(e)
      [] e.kind = "og.ProductGroup" -> ProductGroupEnsureDefaults(e)

\* ensureDefaults dereferences a nil element of a slice of pointers
EnsureDefaultsPanics(e) ==
    \/ e.kind \in {"Product", "LocalBusiness"} /\ HasNil(e.Review)
    \/ e.kind = "FAQPage" /\ HasNil(e.MainEntity)

\* ------------------------------------------------ JSON-LD text, as tokens
\* The text a string-building ToGoHTMLJsonLd writes is kept as the sequence of
\* its lexical tokens; white space is dropped.  A string token carries the
\* text between its quotes.
Tok(x) == [t |-> x, v |-> Empty]

ScriptOpen == Tok("<script>")
ScriptClose == Tok("</script>")
LBrace == Tok("{")
RBrace == Tok("}")
LBracket == Tok("[")
RBracket == Tok("]")
Comma == Tok(",")
Colon == Tok(":")

\* a quoted literal of the format text
Lit(k) == [t |-> "str", v |-> <<k>>]
\* "%s" filled with a value
Quoted(v) == [t |-> "str", v |-> v]
\* %f, %d
Num(x) == [t |-> "num", v |-> <<x>>]
\* characters written outside any string that are no JSON token
Raw(x) == [t |-> "raw", v |-> <<x>>]

\* fmt.Sprintf("%f", x) for a value with no fractional part
FormatF(x) == ToString(x) \o ".000000"
\* fmt.Sprintf("%d", x)
FormatD(x) == ToString(x)

RECURSIVE Concat(_)
Concat(ss) == IF ss = << >> THEN << >> ELSE Head(ss) \o Concat(Tail(ss))

\* `"key": "%s"`
Member(k, v) == <<Lit(k), Colon, Quoted(v)>>
\* `"key": %f`
MemberNum(k, x) == <<Lit(k), Colon, Num(x)>>
\* `  "key": "%s",` followed by a newline
Line(k, v) == Member(k, v) \o <<Comma>>
\* `if v != "" { sb.WriteString(Sprintf(`  "key": "%s",`, Escape(v))) }`
OptLine(k, v) == IF v # Empty THEN Line(k, EscapeString(v)) ELSE << >>

\* `"key": [` elements separated by ", " `],`
ArrayLine(k, items) ==
    IF Len(items) > 0
    THEN <<Lit(k), Colon, LBracket>>
           \o Concat([i \in 1..Len(items) |->
                        IF i > 1 THEN <<Comma>> \o items[i] ELSE items[i]])
           \o <<RBracket, Comma>>
    ELSE << >>

StringArrayLine(k, xs) ==
    ArrayLine(k, [i \in 1..Len(xs) |-> <<Quoted(EscapeString(xs[i]))>>])

\* the head every string-building serializer writes
Header(e) ==
    <<ScriptOpen, LBrace>>
      \o Line("@context", EscapeString(e.Context))
      \o Line("@type", EscapeString(e.Type))

Footer == <<RBrace, ScriptClose>>

\* one element of the "review" array
ReviewJson(review) ==
    <<LBrace>>
      \o Member("@type", <<"Review">>) \o <<Comma>>
      \o Member("reviewBody", EscapeString(review.ReviewBody)) \o <<Comma>>
      \o Member("datePublished", EscapeString(review.DatePublished)) \o <<Comma>>
      \o (IF ~IsNil(review.Author)
          THEN <<Lit("author"), Colon, LBrace>>
                 \o Member("@type", <<"Person">>) \o <<Comma>>
                 \o Member("name", EscapeString(review.Author.Name))
                 \o <<RBrace, Comma>>
          ELSE << >>)
      \o (IF ~IsNil(review.ReviewRating)
          THEN <<Lit("reviewRating"), Colon, LBrace>>
                 \o Member("@type", <<"Rating">>) \o <<Comma>>
                 \o MemberNum("ratingValue", FormatF(review.ReviewRating.RatingValue))
                 \o <<Comma>>
                 \o MemberNum("bestRating", FormatF(review.ReviewRating.BestRating))
                 \o <<RBrace>>
          ELSE << >>)
      \o <<RBrace>>

writeReviews(rs) == ArrayLine("review", [i \in 1..Len(rs) |-> ReviewJson(rs[i])])

writeAggregateRating(ar) ==
    IF ~IsNil(ar)
    THEN <<Lit("aggregateRating"), Colon, LBrace>>
           \o Member("@type", <<"AggregateRating">>) \o <<Comma>>
           \o MemberNum("ratingValue", FormatF(ar.RatingValue)) \o <<Comma>>
           \o MemberNum("reviewCount", FormatD(ar.ReviewCount))
           \o <<RBrace, Comma>>
    ELSE << >>

writeLogo(logo) ==
    IF ~IsNil(logo)
    THEN <<Lit("logo"), Colon, LBrace>>
           \o Member("@type", <<"ImageObject">>) \o <<Comma>>
           \o Member("url", EscapeString(logo.URL))
           \o <<RBrace, Comma>>
    ELSE << >>

\* `"@type": "PostalAddress", "addressLocality": "%s", "addressCountry": "%s"`
AddressBody(addr) ==
    Member("@type", <<"PostalAddress">>) \o <<Comma>>
      \o Member("addressLocality", EscapeString(addr.AddressLocality)) \o <<Comma>>
      \o Member("addressCountry", EscapeString(addr.AddressCountry))

writeAddress(addr) ==
    IF ~IsNil(addr)
    THEN <<Lit("address"), Colon, LBrace>> \o AddressBody(addr) \o <<RBrace, Comma>>
    ELSE << >>

\* `"@type": "GeoCoordinates", "latitude": %f, "longitude": %f`
GeoBody(geo) ==
    Member("@type", <<"GeoCoordinates">>) \o <<Comma>>
      \o MemberNum("latitude", FormatF(geo.Latitude)) \o <<Comma>>
      \o MemberNum("longitude", FormatF(geo.Longitude))

writeGeo(geo) ==
    IF ~IsNil(geo)
    THEN <<Lit("geo"), Colon, LBrace>> \o GeoBody(geo) \o <<RBrace, Comma>>
    ELSE << >>

writeProductBrand(p) ==
    IF ~IsNil(p.Brand)
    THEN <<Lit("brand"), Colon, LBrace>>
           \o Member("@type", <<"Brand">>) \o <<Comma>>
           \o Member("name", EscapeString(p.Brand.Name))
           \o <<RBrace, Comma>>
    ELSE << >>

\* `, "key": "%s"` when the value is not empty
OptTail(k, v) ==
    IF v # Empty THEN <<Comma>> \o Member(k, EscapeString(v)) ELSE << >>

writeProductOffers(p) ==
    IF ~IsNil(p.Offers)
    THEN <<Lit("offers"), Colon, LBrace>>
           \o Member("@type", <<"Offer">>) \o <<Comma>>
           \o Member("price", EscapeString(p.Offers.Price)) \o <<Comma>>
           \o Member("priceCurrency", EscapeString(p.Offers.PriceCurrency))
           \o OptTail("url", p.Offers.URL)
           \o OptTail("availability", p.Offers.Availability)
           \o OptTail("itemCondition", p.Offers.ItemCondition)
           \o <<RBrace, Comma>>
    ELSE << >>

\* Product.ToGoHTMLJsonLd after ensureDefaults
ProductJsonLd(p) ==
    Header(p)
      \o Line("name", EscapeString(p.Name))
      \o OptLine("description", p.Description)
      \o StringArrayLine("image", p.Image)
      \o OptLine("sku", p.SKU)
      \o writeProductBrand(p)
      \o writeProductOffers(p)
      \o OptLine("category", p.Category)
      \o writeAggregateRating(p.AggregateRating)
      \o writeReviews(p.Review)
      \o Footer

\* LocalBusiness.ToGoHTMLJsonLd after ensureDefaults
LocalBusinessJsonLd(lb) ==
    Header(lb)
      \o Line("name", EscapeString(lb.Name))
      \o OptLine("description", lb.Description)
      \o OptLine("url", lb.URL)
      \o OptLine("telephone", lb.Telephone)
      \o writeLogo(lb.Logo)
      \o writeAddress(lb.Address)
      \o StringArrayLine("openingHours", lb.OpeningHours)
      \o writeGeo(lb.Geo)
      \o writeAggregateRating(lb.AggregateRating)
      \o writeReviews(lb.Review)
      \o Footer

ContactPointJson(cp) ==
    <<LBrace>>
      \o Member("@type", <<"ContactPoint">>) \o <<Comma>>
      \o Member("telephone", EscapeString(cp.Telephone)) \o <<Comma>>
      \o Member("contactType", EscapeString(cp.ContactType))
      \o OptTail("areaServed", cp.AreaServed)
      \o OptTail("availableLanguage", cp.AvailableLanguage)
      \o <<RBrace>>

\* Organization.ToGoHTMLJsonLd after ensureDefaults
OrganizationJsonLd(o) ==
    Header(o)
      \o Line("name", EscapeString(o.Name))
      \o OptLine("url", o.URL)
      \o writeLogo(o.Logo)
      \o ArrayLine("contactPoint",
                   [i \in 1..Len(o.ContactPoints) |->
                       ContactPointJson(o.ContactPoints[i])])
      \o StringArrayLine("sameAs", o.SameAs)
      \o Footer

\* `"key": {"@type": "<T>", "name": "%s"},`
NamedObjectLine(k, typ, name) ==
    <<Lit(k), Colon, LBrace>>
      \o Member("@type", <<typ>>) \o <<Comma>>
      \o Member("name", EscapeString(name))
      \o <<RBrace, Comma>>

\* Event.ToGoHTMLJsonLd after ensureDefaults
EventJsonLd(e) ==
    Header(e)
      \o Line("name", EscapeString(e.Name))
      \o Line("description", EscapeString(e.Description))
      \o OptLine("startDate", e.StartDate)
      \o OptLine("endDate", e.EndDate)
      \o OptLine("eventStatus", e.EventStatus)
      \o OptLine("eventAttendanceMode", e.EventAttendanceMode)
      \o (IF ~IsNil(e.Location)
          THEN <<Lit("location"), Colon, LBrace>>
                 \o Member("@type", <<"Place">>) \o <<Comma>>
                 \o Member("name", EscapeString(e.Location.Name))
                 \o (IF ~IsNil(e.Location.Address)
                     THEN <<Comma, Lit("address"), Colon, LBrace>>
                            \o AddressBody(e.Location.Address) \o <<RBrace>>
                     ELSE << >>)
                 \o (IF ~IsNil(e.Location.Geo)
                     THEN <<Comma, Lit("geo"), Colon, LBrace>>
                            \o GeoBody(e.Location.Geo) \o <<RBrace>>
                     ELSE << >>)
                 \o <<RBrace, Comma>>
          ELSE << >>)
      \o (IF ~IsNil(e.Organizer)
          THEN NamedObjectLine("organizer", "Organization", e.Organizer.Name)
          ELSE << >>)
      \o (IF ~IsNil(e.Performer)
          THEN NamedObjectLine("performer", "Person", e.Performer.Name)
          ELSE << >>)
      \o StringArrayLine("image", e.Image)
      \o (IF ~IsNil(e.Offers)
          THEN <<Lit("offers"), Colon, LBrace>>
                 \o Member("@type", <<"Offer">>) \o <<Comma>>
                 \o Member("price", EscapeString(e.Offers.Price)) \o <<Comma>>
                 \o Member("priceCurrency", EscapeString(e.Offers.PriceCurrency))
                 \o <<RBrace, Comma>>
          ELSE << >>)
      \o Footer

\* Person.ToGoHTMLJsonLd after ensureDefaults
PersonJsonLd(p) ==
    Header(p)
      \o Line("name", EscapeString(p.Name))
      \o OptLine("url", p.URL)
      \o OptLine("email", p.Email)
      \o (IF ~IsNil(p.Image)
          THEN <<Lit("image"), Colon, LBrace>>
                 \o Member("@type", <<"ImageObject">>) \o <<Comma>>
                 \o Member("url", EscapeString(p.Image.URL))
                 \o <<RBrace, Comma>>
          ELSE << >>)
      \o OptLine("jobTitle", p.JobTitle)
      \o (IF ~IsNil(p.WorksFor)
          THEN <<Lit("worksFor"), Colon, LBrace>>
                 \o Member("@type", <<"Organization">>) \o <<Comma>>
                 \o Member("name", EscapeString(p.WorksFor.Name)) \o <<Comma>>
                 \o Member("url", EscapeString(p.WorksFor.URL))
                 \o <<RBrace, Comma>>
          ELSE << >>)
      \o StringArrayLine("sameAs", p.SameAs)
      \o OptLine("gender", p.Gender)
      \o OptLine("birthDate", p.BirthDate)
      \o OptLine("nationality", p.Nationality)
      \o OptLine("telephone", p.Telephone)
      \o writeAddress(p.Address)
      \o (IF ~IsNil(p.Affiliation)
          THEN NamedObjectLine("affiliation", "Organization", p.Affiliation.Name)
          ELSE << >>)
      \o Footer

\* WebSite.ToGoHTMLJsonLd after ensureDefaults.  The two object openers are
\* raw string literals ending in `{\n`: a backslash and an n follow the brace.
WebSiteJsonLd(ws) ==
    Header(ws)
      \o Line("url", EscapeString(ws.URL))
      \o Line("name", EscapeString(ws.Name))
      \o OptLine("alternateName", ws.AlternateName)
      \o OptLine("description", ws.Description)
      \o (IF ~IsNil(ws.PotentialAction)
          THEN <<Lit("potentialAction"), Colon, LBrace, Raw("\\n")>>
                 \o Line("@type", EscapeString(ws.PotentialAction.Type))
                 \o (IF ~IsNil(ws.PotentialAction.Target)
                     THEN <<Lit("target"), Colon, LBrace, Raw("\\n")>>
                            \o Line("@type",
                                    EscapeString(ws.PotentialAction.Target.Type))
                            \o Member("urlTemplate",
                                      EscapeString(ws.PotentialAction.Target.URLTemplate))
                            \o <<RBrace, Comma>>
                     ELSE << >>)
                 \o (IF ws.PotentialAction.QueryInput # Empty
                     THEN Member("query-input",
                                 EscapeString(ws.PotentialAction.QueryInput))
                     ELSE << >>)
                 \o <<RBrace, Comma>>
          ELSE << >>)
      \o Footer

\* Article.ToGoHTMLJsonLd after ensureDefaults
ArticleJsonLd(art) ==
    Header(art)
      \o Line("headline", EscapeString(art.Headline))
      \o StringArrayLine("image", art.Image)
      \o (IF ~IsNil(art.Author)
          THEN <<Lit("author"), Colon, LBrace>>
                 \o Member("@type", <<"Person">>) \o <<Comma>>
                 \o Member("name", EscapeString(art.Author.Name))
                 \o OptTail("url", art.Author.URL)
                 \o <<RBrace, Comma>>
          ELSE << >>)
      \o (IF ~IsNil(art.Publisher)
          THEN <<Lit("publisher"), Colon, LBrace>>
                 \o Member("@type", <<"Organization">>) \o <<Comma>>
                 \o Member("name", EscapeString(art.Publisher.Name))
                 \o OptTail("url", art.Publisher.URL)
                 \o (IF ~IsNil(art.Publisher.Logo)
                     THEN <<Comma, Lit("logo"), Colon, LBrace>>
                            \o Member("@type", <<"ImageObject">>) \o <<Comma>>
                            \o Member("url", EscapeString(art.Publisher.Logo.URL))
                            \o <<RBrace>>
                     ELSE << >>)
                 \o <<RBrace, Comma>>
          ELSE << >>)
      \o OptLine("datePublished", art.DatePublished)
      \o OptLine("dateModified", art.DateModified)
      \o (IF art.Description # Empty
          THEN Member("description", EscapeString(art.Description))
          ELSE << >>)
      \o Footer

\* the entities whose ToGoHTMLJsonLd builds the text itself
StringBuilderKinds ==
    {"Product", "Event", "Person", "Organization", "Article", "LocalBusiness",
     "WebSite"}

JsonLdOf(e) ==
    CASE e.kind = "Product" -> ProductJsonLd(e)
      [] e.kind = "Event" -> EventJsonLd(e)
      [] e.kind = "Person" -> PersonJsonLd(e)
      [] e.kind = "Organization" -> OrganizationJsonLd(e)
      [] e.kind = "Article" -> ArticleJsonLd(e)
      [] e.kind = "LocalBusiness" -> LocalBusinessJsonLd(e)
      [] e.kind = "WebSite" -> WebSiteJsonLd(e)

\* ---------------------------------------------------------------- meta tags
\* fmt.Sprintf("%.4f", x) for a value with no fractional part
FormatF4(x) == ToString(x) \o ".0000"

\* a (name, content) pair of a metaTags slice
Pair(k, v) == [name |-> k, content |-> v]

\* the text teseo.WriteMetaTag writes for one pair:
\* <meta property="%s" content="%s" />, both values escaped
WriteMetaTag(property, content) ==
    [attr |-> "property", key |-> EscapeString(<<property>>),
     content |-> EscapeString(content)]

\* `for _, tag := range tags { if tag.content != "" { WriteMetaTag(...) } }`
RECURSIVE WriteTags(_)
WriteTags(tags) ==
    IF tags = << >> THEN << >>
    ELSE (IF Head(tags).content # Empty
          THEN <<WriteMetaTag(Head(tags).name, Head(tags).content)>>
          ELSE << >>) \o WriteTags(Tail(tags))

\* `for _, x := range xs { if x != "" { tags = append(tags, {k, x}) } }`
RECURSIVE EachNonEmpty(_, _)
EachNonEmpty(k, xs) ==
    IF xs = << >> THEN << >>
    ELSE (IF Head(xs) # Empty THEN <<Pair(k, Head(xs))>> ELSE << >>)
           \o EachNonEmpty(k, Tail(xs))

TwitterCardMetaTagsUngated(tc) ==
    <<Pair("twitter:card", tc.Card), Pair("twitter:title", tc.Title),
      Pair("twitter:description", tc.Description),
      Pair("twitter:image", tc.Image), Pair("twitter:site", tc.Site),
      Pair("twitter:creator", tc.Creator),
      Pair("twitter:app:id:iphone", tc.AppID),
      Pair("twitter:player", tc.PlayerURL)>>

TwitterCardMetaTags(tc) ==
    <<Pair("twitter:card", tc.Card), Pair("twitter:title", tc.Title),
      Pair("twitter:description", tc.Description)>>
      \o (IF tc.Image # Empty THEN <<Pair("twitter:image", tc.Image)>> ELSE << >>)
      \o (IF tc.Site # Empty THEN <<Pair("twitter:site", tc.Site)>> ELSE << >>)
      \o (IF tc.Creator # Empty
             /\ (tc.Card = CardSummary \/ tc.Card = CardSummaryLargeImage)
          THEN <<Pair("twitter:creator", tc.Creator)>> ELSE << >>)
      \o (IF tc.AppID # Empty /\ tc.Card = CardApp
          THEN <<Pair("twitter:app:id:iphone", tc.AppID)>> ELSE << >>)
      \o (IF tc.PlayerURL # Empty /\ tc.Card = CardPlayer
          THEN <<Pair("twitter:player", tc.PlayerURL)>> ELSE << >>)

\* the five tags every OpenGraph entity starts with; og:type is the literal
\* of the entity, not the Type field
OpenGraphHead(typ, e) ==
    <<Pair("og:type", <<typ>>), Pair("og:title", e.Title),
      Pair("og:url", e.URL), Pair("og:description", e.Description),
      Pair("og:image", e.Image)>>

BookMetaTags(book) ==
    OpenGraphHead("book", book)
      \o <<Pair("book:isbn", book.ISBN),
           Pair("book:release_date", book.ReleaseDate)>>
      \o EachNonEmpty("book:author", book.Author)
      \o EachNonEmpty("book:tag", book.Tag)

OGPlaceMetaTags(place) ==
    OpenGraphHead("place", place)
      \o <<Pair("place:location:latitude", <<FormatF4(place.Latitude)>>),
           Pair("place:location:longitude", <<FormatF4(place.Longitude)>>),
           Pair("place:contact_data:street_address", place.StreetAddress),
           Pair("place:contact_data:locality", place.Locality),
           Pair("place:contact_data:region", place.Region),
           Pair("place:contact_data:postal_code", place.PostalCode),
           Pair("place:contact_data:country_name", place.Country)>>

VideoEpisodeMetaTags(ve) ==
    OpenGraphHead("video.episode", ve)
      \o <<Pair("video:duration", ve.Duration),
           Pair("video:director", ve.DirectorURL),
           Pair("video:release_date", ve.ReleaseDate),
           Pair("video:series", ve.SeriesURL),
           Pair("video:episode", <<FormatD(ve.EpisodeNumber)>>)>>

VideoMovieMetaTags(vm) ==
    OpenGraphHead("video.movie", vm)
      \o <<Pair("video:duration", vm.Duration),
           Pair("video:director", vm.DirectorURL),
           Pair("video:release_date", vm.ReleaseDate)>>

MusicPlaylistMetaTags(mp) ==
    OpenGraphHead("music.playlist", mp)
      \o <<Pair("music:duration", mp.Duration)>>
      \o EachNonEmpty("music:song", mp.SongURLs)

ProfileMetaTags(p) ==
    <<Pair("og:type", <<"profile">>), Pair("og:title", p.Title),
      Pair("og:url", p.URL), Pair("profile:first_name", p.FirstName),
      Pair("profile:last_name", p.LastName),
      Pair("profile:username", p.Username),
      Pair("profile:gender", p.Gender),
      Pair("og:description", p.Description), Pair("og:image", p.Image)>>

ProductGroupMetaTags(pg) ==
    OpenGraphHead("product.group", pg)
      \o EachNonEmpty("product:group_item", pg.Products)

\* what the component returned by ToMetaTags writes when it is rendered
RenderMetaTags(e) ==
    CASE e.kind = "TwitterCard" -> WriteTags(TwitterCardMetaTags(e))
      [] e.kind = "og.Book" -> WriteTags(BookMetaTags(e))
      [] e.kind = "og.Place" -> WriteTags(OGPlaceMetaTags(e))
      [] e.kind = "og.VideoEpisode" ->
            WriteTags(VideoEpisodeMetaTags(e))
              \o WriteTags(EachNonEmpty("video:actor", e.ActorURLs))
      [] e.kind = "og.VideoMovie" ->
            WriteTags(VideoMovieMetaTags(e))
              \o WriteTags(EachNonEmpty("video:actor", e.ActorURLs))
      [] e.kind = "og.MusicPlaylist" -> WriteTags(MusicPlaylistMetaTags(e))
      [] e.kind = "og.Profile" -> WriteTags(ProfileMetaTags(e))
      [] e.kind = "og.ProductGroup" -> WriteTags(ProductGroupMetaTags(e))

MetaTagKinds == {"TwitterCard"} \cup OpenGraphKinds

\* the discriminator field of an entity that renders meta tags
Discriminator(kind) == IF kind = "TwitterCard" THEN "Card" ELSE "Type"

\* variant in which the component renders the entity as it was when
\* ToMetaTags returned
ComponentReadsSnapshot(atCall, atRender) == atCall

\* the entity the closure returned by ToMetaTags reads when it runs: it
\* holds the pointer, so it reads the entity as it is then
ComponentReads(atCall, atRender) == atRender

\* the error of a sink that rejects a write
SinkError == "sink: write rejected"

\* variant that goes on after a rejected write and reports nothing
RenderToSwallow(tags, fail) ==
    [out |-> IF fail = 0 THEN tags
             ELSE SubSeq(tags, 1, fail - 1) \o SubSeq(tags, fail + 1, Len(tags)),
     err |-> NoError]

\* the body of the component returned by ToMetaTags, run on a sink that
\* rejects write number fail (0: accepts every write): each tag goes through
\* WriteMetaTag, whose error, the sink's error wrapped, ends the loop
RenderTo(tags, fail) ==
    IF fail = 0 THEN [out |-> tags, err |-> NoError]
    ELSE [out |-> SubSeq(tags, 1, fail - 1),
          err |-> <<"failed to write " \o tags[fail].key[1] \o " meta tag",
                    SinkError>>]

\* fmt.Sprintf(`<meta property="%s" content="%s"/>`, tag.property,
\* tag.content) of the string variants that build their text themselves
SprintfMetaTag(property, content) ==
    [attr |-> "property", key |-> <<property>>, content |-> content]

\* `for _, tag := range tags { if tag.content != "" { sb.WriteString(...) } }`
RECURSIVE SprintfTags(_)
SprintfTags(tags) ==
    IF tags = << >> THEN << >>
    ELSE (IF Head(tags).content # Empty
          THEN <<SprintfMetaTag(Head(tags).name, Head(tags).content)>>
          ELSE << >>) \o SprintfTags(Tail(tags))

\* ve.ToGoHTMLMetaTags(): the tags of the returned string
VideoEpisodeToGoHTMLMetaTags(ve) ==
    SprintfTags(VideoEpisodeMetaTags(ve))
      \o SprintfTags(EachNonEmpty("video:actor", ve.ActorURLs))

\* the entities whose ToGoHTMLMetaTags builds the string itself
SprintfKinds == {"og.VideoEpisode"}

\* ------------------------------------------------------------ observations
\* the zero value of an entity of the given type
ZeroOf(kind) ==
    CASE kind = "Product" -> ZeroProduct
      [] kind = "Event" -> ZeroEvent
      [] kind = "Person" -> [kind |-> "Person"] @@ ZeroPerson
      [] kind = "Organization" -> [kind |-> "Organization"] @@ ZeroOrganization
      [] kind = "Article" -> ZeroArticle
      [] kind = "LocalBusiness" -> ZeroLocalBusiness
      [] kind = "WebSite" -> ZeroWebSite
      [] kind = "og.Book" -> ZeroBook
      [] kind = "og.Place" -> ZeroOGPlace
      [] kind = "og.VideoEpisode" -> ZeroVideoEpisode
      [] kind = "og.VideoMovie" -> ZeroVideoMovie
      [] kind = "og.MusicPlaylist" -> ZeroMusicPlaylist
      [] kind = "og.Profile" -> ZeroProfile
      [] kind = "og.ProductGroup" -> ZeroProductGroup

\* the key each field has in its `json:"...,omitempty"` tag
JsonKey ==
    [Name |-> "name", Description |-> "description", Image |-> "image",
     SKU |-> "sku", Brand |-> "brand", Offers |-> "offers",
     Category |-> "category", AggregateRating |-> "aggregateRating",
     Review |-> "review", StartDate |-> "startDate", EndDate |-> "endDate",
     Location |-> "location", Organizer |-> "organizer",
     Performer |-> "performer", EventStatus |-> "eventStatus",
     EventAttendanceMode |-> "eventAttendanceMode", URL |-> "url",
     Email |-> "email", JobTitle |-> "jobTitle", WorksFor |-> "worksFor",
     SameAs |-> "sameAs", Gender |-> "gender", BirthDate |-> "birthDate",
     Nationality |-> "nationality", Telephone |-> "telephone",
     Address |-> "address", Affiliation |-> "affiliation", Logo |-> "logo",
     ContactPoints |-> "contactPoint", Headline |-> "headline",
     Author |-> "author", Publisher |-> "publisher",
     DatePublished |-> "datePublished", DateModified |-> "dateModified",
     OpeningHours |-> "openingHours", Geo |-> "geo",
     AlternateName |-> "alternateName",
     PotentialAction |-> "potentialAction"]

\* the meta property each OpenGraph field is documented to produce
BookProperty ==
    [Title |-> "og:title", URL |-> "og:url", Description |-> "og:description",
     Image |-> "og:image", Author |-> "book:author", ISBN |-> "book:isbn",
     ReleaseDate |-> "book:release_date", Tag |-> "book:tag"]

OGPlaceProperty ==
    [Title |-> "og:title", URL |-> "og:url", Description |-> "og:description",
     Image |-> "og:image", Latitude |-> "place:location:latitude",
     Longitude |-> "place:location:longitude",
     StreetAddress |-> "place:contact_data:street_address",
     Locality |-> "place:contact_data:locality",
     Region |-> "place:contact_data:region",
     PostalCode |-> "place:contact_data:postal_code",
     Country |-> "place:contact_data:country_name"]

VideoEpisodeProperty ==
    [Title |-> "og:title", URL |-> "og:url", Description |-> "og:description",
     Image |-> "og:image", SeriesURL |-> "video:series",
     Duration |-> "video:duration", ActorURLs |-> "video:actor",
     DirectorURL |-> "video:director", ReleaseDate |-> "video:release_date",
     EpisodeNumber |-> "video:episode"]

VideoMovieProperty ==
    [Title |-> "og:title", URL |-> "og:url", Description |-> "og:description",
     Image |-> "og:image", Duration |-> "video:duration",
     ActorURLs |-> "video:actor", DirectorURL |-> "video:director",
     ReleaseDate |-> "video:release_date"]

MusicPlaylistProperty ==
    [Title |-> "og:title", URL |-> "og:url", Description |-> "og:description",
     Image |-> "og:image", SongURLs |-> "music:song",
     Duration |-> "music:duration"]

ProfileProperty ==
    [Title |-> "og:title", URL |-> "og:url", Description |-> "og:description",
     Image |-> "og:image", FirstName |-> "profile:first_name",
     LastName |-> "profile:last_name", Username |-> "profile:username",
     Gender |-> "profile:gender"]

ProductGroupProperty ==
    [Title |-> "og:title", URL |-> "og:url", Description |-> "og:description",
     Image |-> "og:image", Products |-> "product:group_item"]

OpenGraphProperty(kind) ==
    CASE kind = "og.Book" -> BookProperty
      [] kind = "og.Place" -> OGPlaceProperty
      [] kind = "og.VideoEpisode" -> VideoEpisodeProperty
      [] kind = "og.VideoMovie" -> VideoMovieProperty
      [] kind = "og.MusicPlaylist" -> MusicPlaylistProperty
      [] kind = "og.Profile" -> ProfileProperty
      [] kind = "og.ProductGroup" -> ProductGroupProperty

\* the order of the properties in the expected-output comment of each entity
DocumentedOrder(kind) ==
    CASE kind = "og.Book" ->
            <<"og:type", "og:title", "og:url", "og:description", "og:image",
              "book:isbn", "book:release_date", "book:author", "book:tag">>
      [] kind = "og.Place" ->
            <<"og:type", "og:title", "og:url", "og:description", "og:image",
              "place:location:latitude", "place:location:longitude",
              "place:contact_data:street_address",
              "place:contact_data:locality", "place:contact_data:region",
              "place:contact_data:postal_code",
              "place:contact_data:country_name">>
      [] kind = "og.VideoEpisode" ->
            <<"og:type", "og:title", "og:url", "og:description", "og:image",
              "video:duration", "video:actor", "video:director",
              "video:release_date", "video:series", "video:episode">>
      [] kind = "og.VideoMovie" ->
            <<"og:type", "og:title", "og:url", "og:description", "og:image",
              "video:duration", "video:actor", "video:director",
              "video:release_date">>
      [] kind = "og.MusicPlaylist" ->
            <<"og:type", "og:title", "og:url", "og:description", "og:image",
              "music:song", "music:duration">>
      [] kind = "og.Profile" ->
            <<"og:type", "og:title", "profile:first_name",
              "profile:last_name", "profile:username", "profile:gender",
              "og:url", "og:description", "og:image">>
      [] kind = "og.ProductGroup" ->
            <<"og:type", "og:title", "og:url", "og:description", "og:image",
              "product:group_item">>

\* the place of a property in a documented order
Rank(order, k) == CHOOSE i \in 1..Len(order) : order[i] = k

\* the contents of the rendered tags with the given key, in output order
RECURSIVE ContentsOf(_, _)
ContentsOf(tags, k) ==
    IF tags = << >> THEN << >>
    ELSE (IF Head(tags).key = <<k>> THEN <<Head(tags).content>> ELSE << >>)
           \o ContentsOf(Tail(tags), k)

\* the text between the opening and the closing script tag
ScriptBody(toks) == SubSeq(toks, 2, Len(toks) - 1)

Opens(toks, i) == Cardinality({j \in 1..(i - 1) : toks[j].t \in {"{", "["}})
Closes(toks, i) == Cardinality({j \in 1..(i - 1) : toks[j].t \in {"}", "]"}})

\* the keys of the outermost object of a JSON text
TopKeys(toks) ==
    {toks[i].v : i \in {j \in 1..(Len(toks) - 1) :
                          /\ toks[j].t = "str"
                          /\ toks[j + 1].t = ":"
                          /\ Opens(toks, j) - Closes(toks, j) = 1}}

\* the strings of the top-level array member with the given key
ArrayEntries(toks, k) ==
    LET at == {i \in 1..Len(toks) :
                 /\ toks[i] = Lit(k)
                 /\ Opens(toks, i) - Closes(toks, i) = 1}
    IN IF at = {} THEN << >>
       ELSE LET i == CHOOSE x \in at : TRUE
                j == CHOOSE x \in (i + 1)..Len(toks) :
                        /\ toks[x].t = "]"
                        /\ \A y \in (i + 1)..(x - 1) : toks[y].t # "]"
                body == SubSeq(toks, i + 3, j - 1)
                picks == SelectSeq(body, LAMBDA t : t.t = "str")
            IN [x \in 1..Len(picks) |-> picks[x].v]

\* RFC 8259 over the lexical tokens: st is what the grammar expects next,
\* stack the objects ("o") and arrays ("a") that are open
RECURSIVE Parses(_, _, _, _)
Parses(toks, i, stack, st) ==
    IF i > Len(toks) THEN st = "end" /\ stack = << >>
    ELSE
      LET t == toks[i].t
          top == IF stack = << >> THEN "" ELSE stack[Len(stack)]
          pop == SubSeq(stack, 1, Len(stack) - 1)
          after(stk) == IF stk = << >> THEN "end" ELSE "after"
      IN CASE st = "value" /\ t = "{" ->
                  Parses(toks, i + 1, Append(stack, "o"), "key_or_close")
           [] st \in {"value", "value_or_close"} /\ t = "[" ->
                  Parses(toks, i + 1, Append(stack, "a"), "value_or_close")
           [] st = "value_or_close" /\ t = "{" ->
                  Parses(toks, i + 1, Append(stack, "o"), "key_or_close")
           [] st \in {"value", "value_or_close"} /\ t \in {"str", "num"} ->
                  Parses(toks, i + 1, stack, after(stack))
           [] st = "value_or_close" /\ t = "]" ->
                  Parses(toks, i + 1, pop, after(pop))
           [] st = "key_or_close" /\ t = "}" ->
                  Parses(toks, i + 1, pop, after(pop))
           [] st \in {"key", "key_or_close"} /\ t = "str" ->
                  Parses(toks, i + 1, stack, "colon")
           [] st = "colon" /\ t = ":" -> Parses(toks, i + 1, stack, "value")
           [] st = "after" /\ t = "," ->
                  Parses(toks, i + 1, stack,
                         IF top = "o" THEN "key" ELSE "value")
           [] st = "after" /\ t = "}" /\ top = "o" ->
                  Parses(toks, i + 1, pop, after(pop))
           [] st = "after" /\ t = "]" /\ top = "a" ->
                  Parses(toks, i + 1, pop, after(pop))
           [] OTHER -> FALSE

\* one well-formed JSON object
WellFormedObject(toks) ==
    /\ Len(toks) > 0
    /\ toks[1].t = "{"
    /\ Parses(toks, 1, << >>, "value")

\* a tag with the given key is among the rendered tags
HasTag(k) == \E i \in 1..Len(out) : out[i].key = <<k>>

\* the type-discriminator and context fields of an object keep a value that
\* was not empty
KeepsType(b, a) == b.Type # Empty => a.Type = b.Type
KeepsContext(b, a) == b.Context # Empty => a.Context = b.Context

\* the URLs a caller may pass
NoArg == [Scheme |-> Empty, Host |-> Empty, RawPath |-> Empty]

RawURLs ==
    {[Scheme |-> <<"https">>, Host |-> <<"h">>, RawPath |-> path] :
        path \in UNION {[1..k -> PathChars] : k \in 0..MaxPath}}

\* the files the target path may hold before the program runs: none, an empty
\* one, a hand-written sitemap, a sitemap index, a document cut short
Files ==
    {NoFile,
     FileOf(<< >>),
     FileOf(<<UrlsetOpen,
              UrlPiece(<<"u", "&amp;", "&apos;">>, <<"0.8">>),
              UrlPiece(<<"v", "&lt;">>, Empty),
              UrlPiece(Empty, Empty),
              RootClose>>),
     FileOf(<<XmlHeader, UrlsetOpen, RootClose>>),
     FileOf(<<XmlHeader,
              RootOpen("sitemapindex", "http://www.sitemaps.org/schemas/sitemap/0.9"),
              RootClose>>),
     FileOf(<<XmlHeader, UrlsetOpen, UrlPiece(<<"u">>, <<"0.5">>)>>)}

NoWrite == [old |-> NoFile, new |-> << >>]
NoRead == [read |-> FALSE, data |-> << >>, err |-> NoError]
NoExport == [ent |-> NilEntity, data |-> << >>, origin |-> "none", prev |-> NoFile]

\* GenerateUniqueKey: `const charset`, the length of the key, and the key
\* drawn from a generator seeded with the clock reading
Charset ==
    <<"a", "b", "c", "d", "e", "f", "g", "h", "i", "j", "k", "l", "m", "n",
      "o", "p", "q", "r", "s", "t", "u", "v", "w", "x", "y", "z",
      "A", "B", "C", "D", "E", "F", "G", "H", "I", "J", "K", "L", "M", "N",
      "O", "P", "Q", "R", "S", "T", "U", "V", "W", "X", "Y", "Z",
      "0", "1", "2", "3", "4", "5", "6", "7", "8", "9">>

KeyLen == 16

\* the i-th draw of rand.New(rand.NewSource(seed)).Intn(bound): a
\* function of the seed and of i alone
Intn(seed, i, bound) == (seed * 31 + i * 17 + seed * i) % bound

GenerateUniqueKey(now) ==
    [i \in 1..KeyLen |-> Charset[Intn(now, i, Len(Charset)) + 1]]

\* the element identifier the ToJsonLd component passes to templ.JSONScript:
\* the key, after "org-" for an Organization
ElementId(kind, now) ==
    (IF kind = "Organization" THEN <<"org", "-">> ELSE << >>)
      \o GenerateUniqueKey(now)

\* the lowercase name of an entity
LowerName(kind) ==
    CASE kind = "Product" -> "product"
      [] kind = "Event" -> "event"
      [] kind = "Person" -> "person"
      [] kind = "Organization" -> "organization"
      [] kind = "Article" -> "article"
      [] kind = "LocalBusiness" -> "localbusiness"
      [] kind = "WebSite" -> "website"
      [] kind = "WebPage" -> "webpage"
      [] kind = "FAQPage" -> "faqpage"
      [] kind = "BreadcrumbList" -> "breadcrumblist"
      [] kind = "SiteNavigationElement" -> "sitenavigationelement"

\* the entities whose ToGoHTMLMetaTags renders the ToMetaTags component with
\* templ.ToGoHTML and returns (template.HTML, error)
TemplKinds == MetaTagKinds \ SprintfKinds

\* log.Fatalf has not ended the process
Running == res # "exit"

\* ------------------------------------------------------------ the machine
Init ==
    /\ ent \in Entities \cup {NilEntity}
    /\ arg = NoArg
    /\ err = NoError
    /\ pre = ent
    /\ op = "new"
    /\ res = "ok"
    /\ out = Empty
    /\ n = 0
    /\ file \in IF ent.kind = "SiteNavigationElement" THEN Files ELSE {NoFile}
    /\ pc = "idle"
    /\ wr = NoWrite
    /\ seen = NoRead
    /\ exp = NoExport
    /\ origin = "built"
    /\ clock = 0
    /\ ids = << >>

\* e.ensureDefaults(), as run by the constructors and by ToJsonLd / ToMetaTags
\* before they return the component
EnsureDefaults ==
    /\ Running
    /\ n < MaxOps
    /\ pc = "idle"
    /\ ent # NilEntity
    /\ ent' = EnsureDefaultsOf(ent)
    /\ pre' = ent
    /\ arg' = NoArg
    /\ err' = NoError
    /\ res' = IF EnsureDefaultsPanics(ent) THEN "panic" ELSE "ok"
    /\ op' = "ensureDefaults"
    /\ out' = Empty
    /\ n' = n + 1
    /\ origin' = IF ent' = ent THEN origin ELSE "built"
    /\ UNCHANGED <<file, pc, wr, seen, exp, clock, ids>>

\* e.ToGoHTMLJsonLd() of the string-building entities: ensureDefaults, then
\* the text
ToGoHTMLJsonLd ==
    /\ Running
    /\ n < MaxOps
    /\ pc = "idle"
    /\ ent.kind \in StringBuilderKinds
    /\ ent' = EnsureDefaultsOf(ent)
    /\ pre' = ent
    /\ arg' = NoArg
    /\ err' = NoError
    /\ res' = IF EnsureDefaultsPanics(ent) THEN "panic" ELSE "ok"
    /\ op' = "ToGoHTMLJsonLd"
    /\ out' = IF EnsureDefaultsPanics(ent) THEN Empty ELSE JsonLdOf(ent')
    /\ n' = n + 1
    /\ origin' = IF ent' = ent THEN origin ELSE "built"
    /\ UNCHANGED <<file, pc, wr, seen, exp, clock, ids>>

\* e.ToMetaTags(): ensureDefaults, then the component is returned
ToMetaTags ==
    /\ Running
    /\ n < MaxOps
    /\ pc = "idle"
    /\ ent.kind \in MetaTagKinds
    /\ ent' = EnsureDefaultsOf(ent)
    /\ pre' = ent
    /\ arg' = NoArg
    /\ err' = NoError
    /\ res' = "ok"
    /\ op' = "ToMetaTags"
    /\ out' = Empty
    /\ n' = n + 1
    /\ UNCHANGED <<file, pc, wr, seen, exp, origin, clock, ids>>

\* ve.ToGoHTMLMetaTags() of an entity that builds the string itself:
\* ensureDefaults, then the text
ToGoHTMLMetaTags ==
    /\ Running
    /\ n < MaxOps
    /\ ent.kind \in SprintfKinds
    /\ ent' = EnsureDefaultsOf(ent)
    /\ pre' = ent
    /\ arg' = NoArg
    /\ err' = NoError
    /\ res' = "ok"
    /\ op' = "ToGoHTMLMetaTags"
    /\ out' = VideoEpisodeToGoHTMLMetaTags(ent')
    /\ n' = n + 1
    /\ UNCHANGED <<file, pc, wr, seen, exp, origin, clock, ids>>

\* tc.ToGoHTMLMetaTags() of an entity that renders its ToMetaTags component
\* with templ.ToGoHTML: ensureDefaults, the render, which succeeds or
\* returns an error, and log.Fatalf on the error
ToGoHTMLMetaTagsTempl ==
    /\ Running
    /\ n < MaxOps
    /\ ent.kind \in TemplKinds
    /\ ent' = EnsureDefaultsOf(EnsureDefaultsOf(ent))
    /\ pre' = ent
    /\ arg' = NoArg
    /\ err' = NoError
    /\ \E renderOK \in BOOLEAN :
          IF renderOK
          THEN /\ res' = "ok"
               /\ out' = RenderTo(RenderMetaTags(ent'), 0).out
          ELSE /\ res' = "exit"
               /\ out' = Empty
    /\ op' = "ToGoHTMLMetaTags"
    /\ n' = n + 1
    /\ UNCHANGED <<file, pc, wr, seen, exp, origin, clock, ids>>

\* the component returned by ToMetaTags is rendered to a sink that accepts
\* every write
Render ==
    /\ op \in {"ToMetaTags", "Assign"}
    /\ out' = RenderTo(RenderMetaTags(
                          ComponentReads(EnsureDefaultsOf(pre), ent)), 0).out
    /\ op' = IF op = "Assign" THEN "RenderAssigned" ELSE "Render"
    /\ res' = "ok"
    /\ UNCHANGED <<ent, pre, n, arg, err, file, pc, wr, seen, exp, origin, clock, ids>>

\* between ToMetaTags and the render the caller assigns a field of the
\* entity: a new Title, or an empty discriminator
Assign ==
    /\ op = "ToMetaTags"
    /\ \/ ent' = [ent EXCEPT !.Title = StrB]
       \/ ent' = [ent EXCEPT ![Discriminator(ent.kind)] = Empty]
    /\ op' = "Assign"
    /\ UNCHANGED <<pre, res, out, n, arg, err, file, pc, wr, seen, exp, origin, clock, ids>>

\* the component returned by ToMetaTags is rendered to a sink that rejects
\* one of the writes; out is what the sink accepted
RenderRejected ==
    /\ op = "ToMetaTags"
    /\ \E fail \in 1..Len(RenderMetaTags(ent)) :
          /\ out' = RenderTo(RenderMetaTags(ent), fail).out
          /\ err' = RenderTo(RenderMetaTags(ent), fail).err
    /\ op' = "RenderRejected"
    /\ res' = IF err' = NoError THEN "ok" ELSE "error"
    /\ UNCHANGED <<ent, pre, n, arg, file, pc, wr, seen, exp, origin, clock, ids>>

\* the component returned by ToJsonLd is rendered into the page: it reads
\* the clock, which has or has not advanced since the last reading, and
\* writes the script element under the identifier it generates
RenderJsonLd ==
    /\ Running
    /\ op \in {"ensureDefaults", "RenderJsonLd"}
    /\ res = "ok"
    /\ ent.kind \in SchemaOrgKinds
    /\ n < MaxOps
    /\ Len(ids) < MaxBlocks
    /\ \E elapsed \in 0..1 :
          /\ clock + elapsed <= MaxClock
          /\ clock' = clock + elapsed
    /\ ids' = Append(ids, ElementId(ent.kind, clock'))
    /\ op' = "RenderJsonLd"
    /\ n' = n + 1
    /\ UNCHANGED <<ent, pre, res, out, arg, err, file, pc, wr, seen, exp, origin>>

\* bcl, err := NewBreadcrumbListFromUrl(url), where no entity was held
BreadcrumbListFromUrl ==
    /\ ent = NilEntity
    /\ op = "new"
    /\ \E rawURL \in RawURLs :
          /\ arg' = rawURL
          /\ ent' = NewBreadcrumbListFromUrl(rawURL).list
          /\ err' = NewBreadcrumbListFromUrl(rawURL).err
    /\ res' = IF err' = NoError THEN "ok" ELSE "error"
    /\ pre' = ent
    /\ op' = "NewBreadcrumbListFromUrl"
    /\ out' = Empty
    /\ n' = n + 1
    /\ UNCHANGED <<file, pc, wr, seen, exp, origin, clock, ids>>

\* s.ToSitemapFile(filename) up to the point where os.WriteFile has opened
\* the file with O_TRUNC: the nil check, the marshalling, the open
ToSitemapFile ==
    /\ Running
    /\ n < MaxOps
    /\ pc = "idle"
    /\ ent.kind = "SiteNavigationElement"
    /\ \E openOK \in BOOLEAN :
          IF IsNil(ent.ItemList)
          THEN /\ err' = <<"ItemList is nil, cannot generate sitemap">>
               /\ res' = "error"
               /\ UNCHANGED <<file, pc, wr>>
          ELSE IF ~openOK
          THEN /\ err' = <<"error writing XML file">>
               /\ res' = "error"
               /\ UNCHANGED <<file, pc>>
               /\ wr' = [old |-> file, new |-> SitemapDocument(ent)]
          ELSE /\ err' = NoError
               /\ res' = "writing"
               /\ file' = FileOf(<< >>)
               /\ pc' = "writing"
               /\ wr' = [old |-> file, new |-> SitemapDocument(ent)]
    /\ seen' = NoRead
    /\ pre' = ent
    /\ arg' = NoArg
    /\ op' = "ToSitemapFile"
    /\ out' = Empty
    /\ n' = n + 1
    /\ UNCHANGED <<ent, exp, origin, clock, ids>>

\* the rest of os.WriteFile and the return of ToSitemapFile: the first k
\* pieces reach the file, and the call fails unless all of them did
WriteFile ==
    /\ pc = "writing"
    /\ \E k \in 0..Len(wr.new) :
          /\ file' = FileOf(SubSeq(wr.new, 1, k))
          /\ err' = IF k = Len(wr.new) THEN NoError
                    ELSE <<"error writing XML file">>
    /\ res' = IF err' = NoError THEN "ok" ELSE "error"
    /\ exp' = IF err' = NoError
              THEN [ent |-> ent, data |-> wr.new, origin |-> origin,
                    prev |-> IF exp.ent = ent THEN FileOf(exp.data) ELSE NoFile]
              ELSE exp
    /\ pc' = "idle"
    /\ UNCHANGED <<ent, pre, op, out, n, arg, wr, seen, origin, clock, ids>>

\* another goroutine (the about handler) runs FromSitemapFile on the same
\* path into an element of its own while the write is in progress
ConcurrentRead ==
    /\ pc = "writing"
    /\ seen = NoRead
    /\ seen' = [read |-> TRUE, data |-> file.data,
                err |-> FromSitemapFile(ZeroSiteNavigationElement, file, TRUE).err]
    /\ UNCHANGED <<ent, pre, op, res, out, n, arg, err, file, pc, wr, exp, origin, clock, ids>>

\* s.FromSitemapFile(filename), s being the element held or a fresh
\* &SiteNavigationElement{}
SitemapFileImport ==
    /\ Running
    /\ n < MaxOps
    /\ pc = "idle"
    /\ ent.kind = "SiteNavigationElement"
    /\ \E fresh \in BOOLEAN, readOK \in BOOLEAN :
          LET s == IF fresh THEN ZeroSiteNavigationElement ELSE ent
              r == FromSitemapFile(s, file, readOK)
          IN /\ pre' = s
             /\ ent' = r.ent
             /\ err' = r.err
             /\ origin' = IF r.err # NoError
                          THEN (IF fresh THEN "built" ELSE origin)
                          ELSE IF s = ZeroSiteNavigationElement THEN "imported"
                          ELSE "imported over"
    /\ res' = IF err' = NoError THEN "ok" ELSE "error"
    /\ arg' = NoArg
    /\ op' = "FromSitemapFile"
    /\ out' = Empty
    /\ n' = n + 1
    /\ UNCHANGED <<file, pc, wr, seen, exp, clock, ids>>

Next ==
    \/ BreadcrumbListFromUrl
    \/ ToSitemapFile
    \/ WriteFile
    \/ ConcurrentRead
    \/ SitemapFileImport
    \/ EnsureDefaults
    \/ ToGoHTMLJsonLd
    \/ ToMetaTags
    \/ ToGoHTMLMetaTags
    \/ ToGoHTMLMetaTagsTempl
    \/ Assign
    \/ Render
    \/ RenderJsonLd
    \/ RenderRejected

Spec == Init /\ [][Next]_vars

\* ================================================================== claims
\* C1: after ensureDefaults on a Schema.org entity whose Context and Type
\* were empty, Context is "https://schema.org" and Type is the nominal type
\* name of the entity (a WebSite has Type "WebSite").
C1_DefaultsFilled ==
    (op \in {"ensureDefaults", "ToGoHTMLJsonLd"} /\ res = "ok"
       /\ ent.kind \in SchemaOrgKinds
       /\ pre.Context = Empty /\ pre.Type = Empty)
    => (ent.Context = SchemaOrgContext /\ ent.Type = <<ent.kind>>)

\* C2: ensureDefaults is idempotent: on an entity that ensureDefaults has
\* returned, another ensureDefaults changes no field of the entity or of its
\* nested objects.
C2_Idempotent ==
    op = "ensureDefaults" => EnsureDefaultsOf(ent) = ent

\* a second ensureDefaults ran on a SiteNavigationElement created with
\* Position 0 and left it as the first call did
C2_Witness ==
    /\ op = "ensureDefaults" /\ n = 2
    /\ ent.kind = "SiteNavigationElement"
    /\ ent.Position = 1 /\ pre = ent

\* C3: ensureDefaults keeps every non-empty context and type-discriminator:
\* on the receiver, on the items of a BreadcrumbList and on the ItemList of a
\* SiteNavigationElement.
C3_KeepsCallerValues ==
    (op = "ensureDefaults" /\ res = "ok" /\ ent.kind \in SchemaOrgKinds)
    => /\ KeepsType(pre, ent) /\ KeepsContext(pre, ent)
       /\ ent.kind = "BreadcrumbList" =>
            \A i \in 1..Len(pre.ItemListElement) :
                KeepsType(pre.ItemListElement[i], ent.ItemListElement[i])
       /\ (ent.kind = "SiteNavigationElement" /\ ~IsNil(pre.ItemList)) =>
            /\ KeepsType(pre.ItemList, ent.ItemList)
            /\ KeepsContext(pre.ItemList, ent.ItemList)

\* C4: after ensureDefaults every present nested object and every element of
\* a nested collection has a non-empty type (and context, where it has one):
\* the ItemList of a SiteNavigationElement, also when it has no elements, and
\* the ContactPoints of an Organization.
C4_NestedDefaulted ==
    (op = "ensureDefaults" /\ res = "ok")
    => /\ (ent.kind = "SiteNavigationElement" /\ ~IsNil(ent.ItemList)) =>
            (ent.ItemList.Type # Empty /\ ent.ItemList.Context # Empty)
       /\ ent.kind = "Organization" =>
            \A i \in 1..Len(ent.ContactPoints) :
                ent.ContactPoints[i].Type # Empty

\* C5: in the JSON-LD text a field left at its zero value contributes no key
\* to the object; only @context and @type are always emitted.
C5_OmitEmpty ==
    (op = "ToGoHTMLJsonLd" /\ res = "ok")
    => \A f \in (DOMAIN ent) \ {"kind", "Context", "Type"} :
          ent[f] = ZeroOf(ent.kind)[f]
             => <<JsonKey[f]>> \notin TopKeys(ScriptBody(out))

\* C6: the text between the script tags of a string-building ToGoHTMLJsonLd
\* is one well-formed JSON object.
C6_WellFormed ==
    (op = "ToGoHTMLJsonLd" /\ res = "ok") => WellFormedObject(ScriptBody(out))

C8_TwitterGating ==
    (op = "Render" /\ ent.kind = "TwitterCard")
    => LET card == IF pre.Card = Empty THEN CardSummary ELSE pre.Card
       IN /\ HasTag("twitter:creator") <=>
                (pre.Creator # Empty
                   /\ card \in {CardSummary, CardSummaryLargeImage})
          /\ HasTag("twitter:app:id:iphone") <=>
                (pre.AppID # Empty /\ card = CardApp)
          /\ HasTag("twitter:player") <=>
                (pre.PlayerURL # Empty /\ card = CardPlayer)

\* an app card with a Creator was rendered and has no twitter:creator tag
C8_Witness ==
    /\ op = "Render" /\ ent.kind = "TwitterCard"
    /\ pre.Card = CardApp /\ pre.Creator # Empty
    /\ ~HasTag("twitter:creator") /\ HasTag("twitter:card")

\* C9: every tag rendered for a TwitterCard carries its key in the name
\* attribute.
C9_NameAttribute ==
    (op = "Render" /\ ent.kind = "TwitterCard")
    => \A i \in 1..Len(out) : out[i].attr = "name"

\* C10: a field of an OpenGraph entity left at its zero value (empty string,
\* empty list, 0) produces no meta tag.
C10_ZeroFieldNoTag ==
    (op = "Render" /\ ent.kind \in OpenGraphKinds)
    => \A f \in DOMAIN OpenGraphProperty(ent.kind) :
          pre[f] = ZeroOf(ent.kind)[f]
             => ~HasTag(OpenGraphProperty(ent.kind)[f])

\* C11: the keys of the tags rendered for an OpenGraph entity are in the
\* order of the entity's expected-output comment, the tags of a collection at
\* the documented place of the collection.
C11_DocumentedOrder ==
    (op = "Render" /\ ent.kind \in OpenGraphKinds)
    => \A i, j \in 1..Len(out) :
          i < j => Rank(DocumentedOrder(ent.kind), out[i].key[1])
                     <= Rank(DocumentedOrder(ent.kind), out[j].key[1])

\* C12: a collection field with N elements is serialized as exactly N
\* entries, the escaped elements in source order.
C12_CollectionPreserved ==
    /\ (op = "Render" /\ ent.kind = "og.Book") =>
          /\ ContentsOf(out, "book:author")
               = [i \in 1..Len(ent.Author) |-> EscapeString(ent.Author[i])]
          /\ ContentsOf(out, "book:tag")
               = [i \in 1..Len(ent.Tag) |-> EscapeString(ent.Tag[i])]
    /\ (op = "Render" /\ ent.kind = "og.ProductGroup") =>
          ContentsOf(out, "product:group_item")
            = [i \in 1..Len(ent.Products) |-> EscapeString(ent.Products[i])]
    /\ (op = "Render" /\ ent.kind = "og.VideoMovie") =>
          ContentsOf(out, "video:actor")
            = [i \in 1..Len(ent.ActorURLs) |-> EscapeString(ent.ActorURLs[i])]
    /\ (op = "ToGoHTMLJsonLd" /\ res = "ok" /\ ent.kind = "Product") =>
          ArrayEntries(ScriptBody(out), "image")
            = [i \in 1..Len(ent.Image) |-> EscapeString(ent.Image[i])]

\* C13: for a parseable URL with scheme S, host H and path segments s1..sn,
\* NewBreadcrumbListFromUrl returns n+1 items with positions 1..n+1: item 1 is
\* {1, "Home", S://H} and item k+1 is {k+1, sk with its first character
\* title-cased, S://H/s1/.../sk}; an empty path or "/" gives the Home item
\* alone.
C13_BreadcrumbItems ==
    (op = "NewBreadcrumbListFromUrl" /\ res = "ok")
    => LET trimmed == Trim(arg.RawPath)
           s == IF trimmed = << >> THEN << >> ELSE Split(trimmed)
           base == arg.Scheme \o <<"://">> \o arg.Host
           items == ent.ItemListElement
       IN /\ Len(items) = Len(s) + 1
          /\ items[1].Position = 1
          /\ items[1].Name = <<"Home">>
          /\ items[1].Item = base
          /\ \A k \in 1..Len(s) :
                /\ items[k + 1].Position = k + 1
                /\ items[k + 1].Name
                     = (IF s[k] = << >> THEN s[k]
                        ELSE <<UnicodeToTitle(s[k][1])>> \o Tail(s[k]))
                /\ items[k + 1].Item
                     = base \o <<"/">> \o Join(SubSeq(s, 1, k))

\* C14: NewBreadcrumbListFromUrl returns a list and no error, or no list and
\* an error; when the URL does not parse the caller gets the wrapped parse
\* error and no list.
C14_ListOrError ==
    op = "NewBreadcrumbListFromUrl"
    => \/ /\ UrlParse(arg).err = NoError
          /\ ent # NilEntity /\ ent.kind = "BreadcrumbList"
          /\ err = NoError
       \/ /\ UrlParse(arg).err # NoError
          /\ ent = NilEntity
          /\ err = <<"[NewBreadcrumbListFromUrl] invalid URL",
                     "[createBreadcrumbListFromURL] invalid URL">>
                     \o UrlParse(arg).err

\* a URL with a malformed percent-escape was given and the caller holds no
\* list and the error
C14_Witness ==
    /\ op = "NewBreadcrumbListFromUrl"
    /\ arg.RawPath = <<"/", "a", "%zz">>
    /\ ent = NilEntity /\ err # NoError /\ res = "error"

\* ------------------------------------------------------- sitemap claims
\* the url children of a document, in file order
UrlPieces(data) == SelectSeq(data, LAMBDA x : x.t = "url")

\* an element with the Name, Type and Position of its items erased
WithoutItemMeta(s) ==
    LET items == s.ItemList.ItemListElement
    IN [s EXCEPT !.ItemList.ItemListElement =
          [i \in 1..Len(items) |->
              [Type |-> Empty, Name |-> Empty, URL |-> items[i].URL,
               Position |-> 0]]]

\* the item list FromSitemapFile builds has these values in item i
Canonical(item, i) ==
    /\ item.Name = Empty
    /\ item.Type = <<"SiteNavigationElement">>
    /\ item.Position = i

\* C15: a ToSitemapFile that returned no error, on an element whose ItemList
\* has n items, has written the XML declaration followed by a urlset element
\* in the sitemaps.org namespace with exactly n url children in item order,
\* the i-th with loc equal to the i-th URL and priority "0.5"; Name, Position
\* and Type of the items do not influence the document, and the element is
\* unchanged.
C15_SitemapDocument ==
    (op = "ToSitemapFile" /\ pc = "idle" /\ res = "ok")
    => LET items == ent.ItemList.ItemListElement
           d == file.data
       IN /\ file.exists
          /\ Len(d) = Len(items) + 3
          /\ d[1] = XmlHeader
          /\ d[2].t = "urlset"
          /\ d[2].v = <<"http://www.sitemaps.org/schemas/sitemap/0.9">>
          /\ d[Len(d)] = RootClose
          /\ \A i \in 1..Len(items) :
                /\ d[i + 2].t = "url"
                /\ XmlUnescape(d[i + 2].v) = items[i].URL
                /\ d[i + 2].p = <<"0.5">>
          /\ d = SitemapDocument(WithoutItemMeta(ent))
          /\ ent = pre

\* an element whose first item has a Name, a Type and a Position was
\* exported to a two-entry document
C15_Witness ==
    /\ op = "ToSitemapFile" /\ pc = "idle" /\ res = "ok"
    /\ ent.ItemList.ItemListElement = <<SetItemListElement, ZeroItemListElement>>
    /\ Len(UrlPieces(file.data)) = 2

\* C16: after a successful FromSitemapFile on a file with n url entries,
\* whatever the receiver held, its Context is "https://schema.org", its Type
\* "SiteNavigationElement", and its ItemList has Context "https://schema.org",
\* Type "ItemList" and n elements in file order, the i-th with URL equal to
\* the i-th loc, Position i, Type "SiteNavigationElement" and an empty Name.
C16_Imported ==
    (op = "FromSitemapFile" /\ res = "ok")
    => LET u == UrlPieces(file.data)
           items == ent.ItemList.ItemListElement
       IN /\ ent.Context = <<"https://schema.org">>
          /\ ent.Type = <<"SiteNavigationElement">>
          /\ ~IsNil(ent.ItemList)
          /\ ent.ItemList.Context = <<"https://schema.org">>
          /\ ent.ItemList.Type = <<"ItemList">>
          /\ Len(items) = Len(u)
          /\ \A i \in 1..Len(u) :
                /\ items[i].URL = XmlUnescape(u[i].v)
                /\ Canonical(items[i], i)

\* a receiver that had a Name and an ItemList of its own imported the
\* hand-written file of three entries
C16_Witness ==
    /\ op = "FromSitemapFile" /\ res = "ok"
    /\ pre.Name # Empty /\ ~IsNil(pre.ItemList)
    /\ Len(ent.ItemList.ItemListElement) = 3
    /\ ent.ItemList.ItemListElement[1].URL = <<"u", "&", "'">>

\* the file at the path is the one the last successful export wrote, and
\* it has just been imported into a fresh element
RoundTrip ==
    /\ op = "FromSitemapFile" /\ res = "ok"
    /\ pre = ZeroSiteNavigationElement
    /\ exp.ent # NilEntity
    /\ file = FileOf(exp.data)

\* C17: export with ToSitemapFile, then import into a fresh element: the
\* item list has the same length and the same URLs in the same order, every
\* element has an empty Name, Type "SiteNavigationElement" and Position equal
\* to its 1-based index whatever the original had, and the imported list
\* equals the original exactly when the original carried those values.
C17_RoundTripAsymmetry ==
    RoundTrip
    => LET orig == exp.ent.ItemList.ItemListElement
           imp == ent.ItemList.ItemListElement
       IN /\ Len(imp) = Len(orig)
          /\ \A i \in 1..Len(orig) :
                /\ imp[i].URL = orig[i].URL
                /\ Canonical(imp[i], i)
          /\ (imp = orig) <=> (\A i \in 1..Len(orig) : Canonical(orig[i], i))

\* the exported element had a named item with a type and a position of its
\* own, and the imported list differs from the original
C17_Witness ==
    /\ RoundTrip
    /\ exp.ent.ItemList.ItemListElement = <<SetItemListElement, ZeroItemListElement>>
    /\ ent.ItemList.ItemListElement # exp.ent.ItemList.ItemListElement
    /\ ent.ItemList.ItemListElement[1].URL = StrB

\* C18 as stated: for any element produced by FromSitemapFile, ToSitemapFile
\* followed by FromSitemapFile into a fresh element yields an element equal
\* to it, and exporting the same element twice writes identical files.
C18_IdentityOnImported ==
    /\ (RoundTrip /\ exp.origin \in {"imported", "imported over"})
          => ent = exp.ent
    /\ (exp.origin \in {"imported", "imported over"} /\ exp.prev.exists)
          => exp.prev.data = exp.data

\* C18, amended: for any element produced by FromSitemapFile into a fresh
\* element, ToSitemapFile followed by FromSitemapFile into a fresh element
\* yields an element equal to it, and exporting the same element twice
\* writes identical files.
C18_IdentityOnFreshImport ==
    /\ (RoundTrip /\ exp.origin = "imported") => ent = exp.ent
    /\ (exp.origin \in {"imported", "imported over"} /\ exp.prev.exists)
          => exp.prev.data = exp.data

\* the three entries of the hand-written file were imported into a fresh
\* element, exported, and imported again
C18_Witness ==
    /\ RoundTrip
    /\ exp.origin = "imported"
    /\ Len(exp.ent.ItemList.ItemListElement) = 3
    /\ ent = exp.ent

\* C19: ToSitemapFile writes atomically: during the call and after it
\* returns, also when the write fails part-way, the file holds its previous
\* content or the complete new document, and a FromSitemapFile running
\* concurrently on the path never reads a truncated or partial document.
C19_AtomicWrite ==
    (op = "ToSitemapFile" /\ ~IsNil(ent.ItemList))
    => /\ file \in {wr.old, FileOf(wr.new)}
       /\ seen.read => seen.data \in {wr.old.data, wr.new}

\* C20: a FromSitemapFile that fails (the file cannot be opened or read, or
\* its content does not unmarshal as a urlset document) returns a non-nil
\* error and leaves every field of the receiver as before the call.
C20_FailureLeavesReceiver ==
    op = "FromSitemapFile"
    => /\ (~file.exists \/ Unmarshal(file.data).err # NoError) => res = "error"
       /\ res = "error" => (err # NoError /\ ent = pre)

\* a receiver holding a two-item list was asked to import a sitemap index
\* and still holds the list
C20_Witness ==
    /\ op = "FromSitemapFile" /\ res = "error"
    /\ err = <<"could not unmarshal XML content">>
    /\ file.data # << >> /\ file.data[Len(file.data)].t = "end"
    /\ ~IsNil(ent.ItemList)
    /\ Len(ent.ItemList.ItemListElement) = 2

\* C21: the string returned by ToGoHTMLMetaTags holds the same sequence of
\* tags as the component of ToMetaTags writes for the same entity: the same
\* properties in the same order with the same HTML-escaped content.
C21_StringVariantSameTags ==
    (op = "ToGoHTMLMetaTags" /\ ent.kind \in SprintfKinds)
    => /\ Len(out) = Len(RenderMetaTags(ent))
       /\ \A i \in 1..Len(out) :
             /\ out[i].key = RenderMetaTags(ent)[i].key
             /\ out[i].content = RenderMetaTags(ent)[i].content

\* C22: when the sink rejects a write while a ToMetaTags component renders,
\* Render returns an error that wraps the sink's error and no tag is written
\* after the failing one; on a sink that accepts every write it returns nil.
C22_SinkErrorSurfaced ==
    /\ op = "RenderRejected"
          => /\ err # NoError
             /\ err[Len(err)] = SinkError
             /\ res = "error"
             /\ \E k \in 1..Len(RenderMetaTags(ent)) :
                   /\ out = SubSeq(RenderMetaTags(ent), 1, k - 1)
                   /\ err[1] = "failed to write "
                                 \o RenderMetaTags(ent)[k].key[1] \o " meta tag"
    /\ op = "Render" => (err = NoError /\ out = RenderMetaTags(ent))

\* the sink rejected the second tag of a VideoMovie with an actor: the first
\* tag was written, the actor tag was not
C22_Witness ==
    /\ op = "RenderRejected" /\ ent.kind = "og.VideoMovie"
    /\ Len(out) = 1 /\ Len(RenderMetaTags(ent)) = 3
    /\ ent.ActorURLs # << >>
    /\ err = <<"failed to write og:title meta tag", SinkError>>

\* C23: a ToGoHTMLJsonLd or ToGoHTMLMetaTags method that returns a (value,
\* error) pair never terminates the process: it returns, with a non-nil
\* error when the render failed, and the process keeps running.
C23_NoProcessExit ==
    (op = "ToGoHTMLMetaTags" /\ ent.kind \in TemplKinds)
    => /\ Running
       /\ res \in {"ok", "error"}
       /\ res = "error" <=> err # NoError

\* C24: ensureDefaults, and with it ToJsonLd and ToGoHTMLJsonLd, completes
\* without an error or a panic for every entity value, also for a Product or
\* LocalBusiness whose Review, or an FAQPage whose MainEntity, holds a nil
\* element.
C24_DefaultsNeverFail ==
    op \in {"ensureDefaults", "ToGoHTMLJsonLd"} => (res = "ok" /\ err = NoError)

\* the fields that hold a pointer to a nested object, and those that hold a
\* slice of nested objects
PointerFields ==
    {"Address", "Affiliation", "AggregateRating", "Brand", "Geo", "ItemList",
     "Location", "Logo", "Offers", "Organizer", "Performer",
     "PotentialAction", "Publisher", "ReviewRating", "WorksFor"}

SliceFields == {"ContactPoints", "ItemListElement", "MainEntity", "Review"}

\* Author and Image are a pointer in some entities and a string or a slice of
\* strings in others
MixedFields == {"Author", "Image"}

\* the part of an item that is neither context nor type
ItemData(item) == [Name |-> item.Name, URL |-> item.URL, Position |-> item.Position]

\* C25: ensureDefaults changes only context and type fields: the scalars of
\* the receiver, the presence of its nested objects, the length of its
\* collections and the data of the items of a SiteNavigationElement are the
\* same after the call as before it.
C25_OnlyContextAndType ==
    (op = "ensureDefaults" /\ res = "ok" /\ ent.kind \in SchemaOrgKinds)
    => /\ \A f \in DOMAIN ent \ ({"Context", "Type"} \cup MixedFields) :
             IF f \in PointerFields THEN IsNil(ent[f]) <=> IsNil(pre[f])
             ELSE IF f \in SliceFields THEN Len(ent[f]) = Len(pre[f])
             ELSE ent[f] = pre[f]
       /\ (ent.kind = "SiteNavigationElement" /\ ~IsNil(pre.ItemList))
             => \A i \in 1..Len(pre.ItemList.ItemListElement) :
                   ItemData(ent.ItemList.ItemListElement[i])
                     = ItemData(pre.ItemList.ItemListElement[i])

\* C26: any two JSON-LD blocks rendered for the same page have different
\* element identifiers, also when both calls of GenerateUniqueKey read the
\* same clock value.
C26_UniqueIds ==
    \A i \in 1..Len(ids) : \A j \in 1..Len(ids) : i # j => ids[i] # ids[j]

\* C27: the element identifier of a ToJsonLd component is the lowercase name
\* of the entity, a hyphen, and a key of exactly 16 characters of a-z, A-Z
\* and 0-9.
C27_IdPattern ==
    op = "RenderJsonLd"
    => LET id == ids[Len(ids)]
       IN /\ Len(id) = KeyLen + 2
          /\ id[1] = LowerName(ent.kind)
          /\ id[2] = "-"
          /\ \A i \in 3..Len(id) : \E c \in 1..Len(Charset) : id[i] = Charset[c]

\* C28: the og:type tag rendered by an OpenGraph entity carries the Type
\* field as it stands after defaulting: the nominal type when Type was
\* empty, the caller's value when the caller set it.
C28_TypeTagIsTypeField ==
    (op = "Render" /\ ent.kind \in OpenGraphKinds)
    => /\ ContentsOf(out, "og:type") = <<EscapeString(ent.Type)>>
       /\ pre.Type # Empty => ent.Type = pre.Type

\* the key of the title tag of an entity
TitleKey(kind) == IF kind = "TwitterCard" THEN "twitter:title" ELSE "og:title"

C30_NilOrEmptyItemList ==
    [][/\ (op' = "ToSitemapFile" /\ n' = n + 1 /\ IsNil(ent.ItemList))
             => /\ res' = "error"
                /\ err' = <<"ItemList is nil, cannot generate sitemap">>
                /\ file' = file
                /\ pc' = "idle"
       /\ (op' = "ToSitemapFile" /\ n' = n + 1 /\ ~IsNil(ent.ItemList)
             /\ ent.ItemList.ItemListElement = << >>)
             => /\ err' # <<"ItemList is nil, cannot generate sitemap">>
                /\ wr'.new = <<XmlHeader, UrlsetOpen, RootClose>>
       /\ (pc = "writing" /\ pc' = "idle" /\ res' = "ok"
             /\ ent.ItemList.ItemListElement = << >>)
             => file' = FileOf(<<XmlHeader, UrlsetOpen, RootClose>>)]_vars

\* an element with an empty ItemList was exported over a file of three
\* entries, which now holds the empty urlset document
C30_Witness ==
    /\ op = "ToSitemapFile" /\ pc = "idle" /\ res = "ok"
    /\ ~IsNil(ent.ItemList) /\ ent.ItemList.ItemListElement = << >>
    /\ Len(UrlPieces(wr.old.data)) = 3
    /\ file = FileOf(<<XmlHeader, UrlsetOpen, RootClose>>)

====
